---- MODULE Spec2Model ----
(***************************************************************************)
(* pr-review-manager: teams, users, pull requests and reviewer assignment. *)
(*                                                                         *)
(* The relational store (teams, users, pull_requests, reviewers) is one    *)
(* record `db`; every SQL statement of the repository layer is a pure      *)
(* operator on it and is one atomic step.  Every service method is a       *)
(* sequence of such steps run by a process (a request goroutine); `pc`     *)
(* holds the statement a process executes next.                            *)
(***************************************************************************)
EXTENDS Integers, Sequences, FiniteSets, TLC

\* ------------------------------------------------------------------ bounds
NumUsers == 4
NumPRs == 1
MaxMembers == 4
MaxUpserts == 4
MaxCalls == 4

UserIDs == 1..NumUsers
PRIDs == 1..NumPRs
TeamNames == {"T1", "T2"}
Usernames == {"n1"}
PRNames == {"fix"}
Seq1 == {1}
Procs == {1, 2}

\* ------------------------------------------------------ values of the code
PRStatusOpen == "OPEN"
PRStatusMerged == "MERGED"

ErrorCodeTeamExists == "TEAM_EXISTS"
ErrorCodePRExists == "PR_EXISTS"
ErrorCodePRMerged == "PR_MERGED"
ErrorCodeNotAssigned == "NOT_ASSIGNED"
ErrorCodeNoCandidate == "NO_CANDIDATE"
ErrorCodeNotFound == "NOT_FOUND"
\* a returned error that is no *models.ErrorResponse (fmt.Errorf wrapping)
Untyped == "UNTYPED"
\* a nil error
Ok == "OK"

\* the zero time.Time of Go and the SQL NULL of a TIMESTAMPTZ column
ZeroTime == 0
NULL == -1

\* the zero value of models.PullRequest (what GetPullRequest returns on error)
ZeroPR ==
  [PullRequestID |-> 0, PullRequestName |-> "", AuthorID |-> 0, Status |-> "",
   AssignedReviewers |-> << >>, CreatedAt |-> ZeroTime, MergedAt |-> ZeroTime]

\* the zero value of models.User
ZeroUser == [UserID |-> 0, Username |-> "", TeamName |-> "", IsActive |-> FALSE]

\* ------------------------------------------------------------ sequences
Range(s) == {s[i] : i \in DOMAIN s}

Min(S) == CHOOSE m \in S : \A x \in S : m <= x

RECURSIVE SortedSeq(_)
SortedSeq(S) == IF S = {} THEN << >>
                ELSE LET m == Min(S) IN <<m>> \o SortedSeq(S \ {m})

\* every listing of a finite set without repetition
Orderings(S) ==
  {s \in [1..Cardinality(S) -> S] : \A i, j \in 1..Cardinality(S) : i # j => s[i] # s[j]}

Swap(s, i, j) == [s EXCEPT ![i] = s[j], ![j] = s[i]]

\* ------------------------------------------------------------ the schema
EmptyDB == [teams |-> {}, users |-> << >>, pull_requests |-> << >>, reviewers |-> {}]

HasTeam(d, t) == t \in d.teams
HasUser(d, u) == u \in DOMAIN d.users
HasPR(d, id) == id \in DOMAIN d.pull_requests

\* rows of users whose team_name is t
UsersOfTeam(d, t) == {u \in DOMAIN d.users : d.users[u].team_name = t}

\* ON DELETE CASCADE: deleting the users in U deletes the pull requests they
\* authored and every reviewers row of a deleted user or a deleted pull request
CascadeUsers(d, U) ==
  LET keepU == DOMAIN d.users \ U
      keepP == {id \in DOMAIN d.pull_requests : d.pull_requests[id].author_id \in keepU}
  IN [d EXCEPT !.users = [u \in keepU |-> d.users[u]],
               !.pull_requests = [id \in keepP |-> d.pull_requests[id]],
               !.reviewers = {r \in d.reviewers : r[1] \in keepP /\ r[2] \in keepU}]

\* ----------------------------------------------- the statements of Storage
\* each returns [err, db] (a write) or [err, ...] (a read); err "" is nil,
\* "unique" is SQLSTATE 23505, "fk" is 23503, "no_rows" is sql.ErrNoRows

\* mutant of CreateTeam: team_name is no key
CreateTeamNoKey(d, t) == [err |-> "", db |-> [d EXCEPT !.teams = @ \cup {t}]]

\* INSERT INTO teams (team_name) VALUES ($1)
CreateTeam(d, t) ==
  IF HasTeam(d, t) THEN [err |-> "unique", db |-> d]
  ELSE [err |-> "", db |-> [d EXCEPT !.teams = @ \cup {t}]]

\* mutant of DeleteTeam: no ON DELETE CASCADE, the users rows stay
DeleteTeamRowOnly(d, t) == [err |-> "", db |-> [d EXCEPT !.teams = @ \ {t}]]

\* mutant of DeleteTeam: the statement deletes nothing
DeleteTeamNoRow(d, t) == [err |-> "", db |-> d]

\* DELETE FROM teams WHERE team_name=$1
DeleteTeam(d, t) ==
  [err |-> "", db |-> CascadeUsers([d EXCEPT !.teams = @ \ {t}], UsersOfTeam(d, t))]

\* SELECT user_id, username, is_active FROM users WHERE team_name=$1
SelectTeamUsers(d, t) ==
  {[UserID |-> u, Username |-> d.users[u].username, IsActive |-> d.users[u].is_active]
     : u \in UsersOfTeam(d, t)}

\* mutant of CountTeams: every name counts as registered
CountTeamsAnyName(d, t) == 1

\* SELECT COUNT(*) FROM teams WHERE team_name=$1
CountTeams(d, t) == IF HasTeam(d, t) THEN 1 ELSE 0

\* mutant of UpsertUser: ON CONFLICT (user_id) DO NOTHING
UpsertUserDoNothing(d, u) ==
  IF ~HasTeam(d, u.TeamName) THEN [err |-> "fk", db |-> d]
  ELSE IF HasUser(d, u.UserID) THEN [err |-> "", db |-> d]
  ELSE [err |-> "",
        db |-> [d EXCEPT !.users =
                  (u.UserID :> [username |-> u.Username, is_active |-> u.IsActive,
                                team_name |-> u.TeamName]) @@ @]]

\* INSERT INTO users ... ON CONFLICT (user_id) DO UPDATE SET username, is_active, team_name
UpsertUser(d, u) ==
  IF ~HasTeam(d, u.TeamName) THEN [err |-> "fk", db |-> d]
  ELSE [err |-> "",
        db |-> [d EXCEPT !.users =
                  (u.UserID :> [username |-> u.Username, is_active |-> u.IsActive,
                                team_name |-> u.TeamName]) @@ @]]

\* SELECT user_id, username, team_name, is_active FROM users WHERE user_id=$1
GetUser(d, id) ==
  IF ~HasUser(d, id) THEN [err |-> "no_rows", user |-> ZeroUser]
  ELSE [err |-> "",
        user |-> [UserID |-> id, Username |-> d.users[id].username,
                  TeamName |-> d.users[id].team_name, IsActive |-> d.users[id].is_active]]

\* mutant of UpdateUser: only is_active is written
UpdateUserFlagOnly(d, u) ==
  IF ~HasUser(d, u.UserID) THEN [err |-> "not_affected", db |-> d]
  ELSE [err |-> "", db |-> [d EXCEPT !.users[u.UserID].is_active = u.IsActive]]

\* UPDATE users SET username=$1, is_active=$2, team_name=$3 WHERE user_id=$4
\* (no row affected is the error "update user: not found")
UpdateUser(d, u) ==
  IF ~HasUser(d, u.UserID) THEN [err |-> "not_affected", db |-> d]
  ELSE IF ~HasTeam(d, u.TeamName) THEN [err |-> "fk", db |-> d]
  ELSE [err |-> "",
        db |-> [d EXCEPT !.users[u.UserID] =
                  [username |-> u.Username, is_active |-> u.IsActive,
                   team_name |-> u.TeamName]]]

\* mutant of sqlNullTime: the zero time is stored as a time
sqlNullTimeAlwaysValid(t) == t

\* sqlNullTime: NULL for the zero time, the time otherwise
sqlNullTime(t) == IF t = ZeroTime THEN NULL ELSE t

\* sql.NullTime scanned into a time.Time: left zero unless Valid
ScanNullTime(c) == IF c # NULL THEN c ELSE ZeroTime

\* INSERT INTO pull_requests (pull_request_id, pull_request_name, author_id, status, created_at)
CreatePullRequest(d, pr) ==
  IF HasPR(d, pr.PullRequestID) THEN [err |-> "unique", db |-> d]
  ELSE IF ~HasUser(d, pr.AuthorID) THEN [err |-> "fk", db |-> d]
  ELSE [err |-> "",
        db |-> [d EXCEPT !.pull_requests =
                  (pr.PullRequestID :>
                     [pull_request_name |-> pr.PullRequestName, author_id |-> pr.AuthorID,
                      status |-> pr.Status, created_at |-> pr.CreatedAt,
                      merged_at |-> NULL]) @@ @]]

\* mutant of SelectPullRequest: the query matches no row
SelectPullRequestNoRows(d, id) == [err |-> "no_rows", pr |-> ZeroPR]

\* SELECT ... FROM pull_requests WHERE pull_request_id=$1, scanned into the struct
SelectPullRequest(d, id) ==
  IF ~HasPR(d, id) THEN [err |-> "no_rows", pr |-> ZeroPR]
  ELSE LET row == d.pull_requests[id]
       IN [err |-> "",
           pr |-> [PullRequestID |-> id, PullRequestName |-> row.pull_request_name,
                   AuthorID |-> row.author_id, Status |-> row.status,
                   AssignedReviewers |-> << >>,
                   CreatedAt |-> ScanNullTime(row.created_at),
                   MergedAt |-> ScanNullTime(row.merged_at)]]

\* SELECT user_id FROM reviewers WHERE pull_request_id=$1 ORDER BY user_id
ListReviewersByPR(d, id) == SortedSeq({r[2] : r \in {x \in d.reviewers : x[1] = id}})

\* mutant of ListPRsByReviewer: only the OPEN pull requests
ListOpenPRsByReviewer(d, uid) ==
  {[PullRequestID |-> r[1],
    PullRequestName |-> d.pull_requests[r[1]].pull_request_name,
    AuthorID |-> d.pull_requests[r[1]].author_id,
    Status |-> d.pull_requests[r[1]].status]
     : r \in {x \in d.reviewers : x[2] = uid /\ d.pull_requests[x[1]].status = "OPEN"}}

\* SELECT p.pull_request_id, p.pull_request_name, p.author_id, p.status
\* FROM pull_requests p JOIN reviewers r ON r.pull_request_id = p.pull_request_id
\* WHERE r.user_id = $1
ListPRsByReviewer(d, uid) ==
  {[PullRequestID |-> r[1],
    PullRequestName |-> d.pull_requests[r[1]].pull_request_name,
    AuthorID |-> d.pull_requests[r[1]].author_id,
    Status |-> d.pull_requests[r[1]].status]
     : r \in {x \in d.reviewers : x[2] = uid /\ HasPR(d, x[1])}}

\* UPDATE pull_requests SET pull_request_name, author_id, status, created_at, merged_at
\* WHERE pull_request_id=$6 (no matching row is no error)
UpdatePullRequestRow(d, pr) ==
  IF ~HasPR(d, pr.PullRequestID) THEN [err |-> "", db |-> d]
  ELSE IF ~HasUser(d, pr.AuthorID) THEN [err |-> "fk", db |-> d]
  ELSE [err |-> "",
        db |-> [d EXCEPT !.pull_requests[pr.PullRequestID] =
                  [pull_request_name |-> pr.PullRequestName, author_id |-> pr.AuthorID,
                   status |-> pr.Status, created_at |-> pr.CreatedAt,
                   merged_at |-> sqlNullTime(pr.MergedAt)]]]

\* mutant of DeleteReviewers: the DELETE has no WHERE clause
DeleteReviewersOfAll(d, id) ==
  [err |-> "", db |-> [d EXCEPT !.reviewers = {}]]

\* DELETE FROM reviewers WHERE pull_request_id=$1
DeleteReviewers(d, id) ==
  [err |-> "", db |-> [d EXCEPT !.reviewers = {r \in @ : r[1] # id}]]

\* mutant of AssignReviewer: the statement inserts nothing
AssignReviewerNoRow(d, id, uid) == [err |-> "", db |-> d]

\* INSERT INTO reviewers (pull_request_id, user_id) VALUES ($1,$2)
AssignReviewer(d, id, uid) ==
  IF <<id, uid>> \in d.reviewers THEN [err |-> "unique", db |-> d]
  ELSE IF ~HasPR(d, id) \/ ~HasUser(d, uid) THEN [err |-> "fk", db |-> d]
  ELSE [err |-> "", db |-> [d EXCEPT !.reviewers = @ \cup {<<id, uid>>}]]


\* ------------------------------------------------------------- the state
VARIABLES
  db,      \* the four tables
  clock,   \* the next value time.Now() returns
  pc,      \* per process: the statement it executes next, or "idle"
  call,    \* per process: the service method it runs (or ran last) and its arguments
  loc,     \* per process: the local variables of the running method
  ret,     \* per process: what the last finished method returned
  pre,     \* per process: the tables when the current (or last) method was called
  ncalls,  \* service methods called so far
  nups     \* team members submitted so far, over all AddTeam requests

vars == <<db, clock, pc, call, loc, ret, pre, ncalls, nups>>

\* what GetTeam remembers of the request that came before it (its method, team,
\* result and the tables when it was called): none
NoPrev ==
  [name |-> "", team |-> "", code |-> "", members |-> {}, undo |-> "", pre |-> EmptyDB]

NoCall ==
  [name |-> "", team |-> "", user |-> 0, active |-> FALSE, id |-> 0, prname |-> "",
   author |-> 0, old |-> 0, prev |-> NoPrev]

\* fault: a storage call of the running method has failed with an internal error
Loc0 ==
  [pr |-> ZeroPR, user |-> ZeroUser, rows |-> {}, assigned |-> << >>, i |-> 0,
   found |-> 0, newReviewer |-> 0, members |-> {}, writes |-> 0, fault |-> FALSE]

\* code "" while the method runs; writes counts the INSERT/UPDATE/DELETE statements
\* the method executed; fault tells that one of its storage calls failed with an
\* internal error; undo tells how AddTeam's compensating delete ended
\* ("" not run, "deleted", "failed"); status and body are the HTTP status and
\* the error code of the response the handler wrote (0 and "" while it runs)
NoRet ==
  [code |-> "", pr |-> ZeroPR, replaced_by |-> 0, members |-> {}, user |-> ZeroUser,
   writes |-> 0, fault |-> FALSE, undo |-> "", status |-> 0, body |-> "", prs |-> {}]

\* the member records a request body can carry
TeamMembers == [UserID : UserIDs, Username : Usernames, IsActive : BOOLEAN]

Init ==
  /\ db = EmptyDB
  /\ clock = 1
  /\ pc = [p \in Procs |-> "idle"]
  /\ call = [p \in Procs |-> NoCall]
  /\ loc = [p \in Procs |-> Loc0]
  /\ ret = [p \in Procs |-> NoRet]
  /\ pre = [p \in Procs |-> EmptyDB]
  /\ ncalls = 0
  /\ nups = 0

\* a handler is entered: its arguments and the tables at entry are recorded
Begin(p, c) ==
  /\ pc[p] = "idle"
  /\ ncalls < MaxCalls
  /\ ncalls' = ncalls + 1
  /\ call' = [call EXCEPT ![p] = c]
  /\ pre' = [pre EXCEPT ![p] = db]
  /\ UNCHANGED nups

\* ------------------------------------------------ errors and the transport
\* An error text is the sequence of its pieces between the separators ": ".
StatusOK == 200
StatusCreated == 201
StatusNotFound == 404
StatusConflict == 409
StatusInternalServerError == 500

\* a nil error
NilError == [typed |-> FALSE, Code |-> "", Message |-> << >>]

\* what a failed storage call says: the driver's name, then its text
Cause == <<"pq", "connection lost">>

\* errWithCode: a *models.ErrorResponse with the code and the message
errWithCode(code, msg) == [typed |-> TRUE, Code |-> code, Message |-> <<msg>>]

\* fmt.Errorf(prefix + ": %w", err)
Errorf(prefix, cause) == [typed |-> FALSE, Code |-> "", Message |-> <<prefix>> \o cause]

\* mutant of ErrorText: the code comes before the message
ErrorTextWithCode(e) == IF e.typed THEN <<e.Code>> \o e.Message ELSE e.Message

\* err.Error(): ErrorResponse.Error returns e.ErrDetail.Message, a wrapped
\* error its formatted text
ErrorText(e) == e.Message

\* strings.SplitN(s, ": ", 2)
SplitN2(s) == IF Len(s) >= 2 THEN <<s[1], Tail(s)>> ELSE s

\* ParseCodeFromError: the text before the first ": ", "" when there is none
ParseCodeFromError(e) ==
  IF e = NilError THEN ""
  ELSE LET parts == SplitN2(ErrorText(e)) IN
         IF Len(parts) >= 2 THEN parts[1] ELSE ""

getStatusByCode(code) ==
  CASE code = ErrorCodeNotFound -> StatusNotFound
    [] code \in {ErrorCodeTeamExists, ErrorCodePRExists} -> StatusConflict
    [] code \in {ErrorCodePRMerged, ErrorCodeNotAssigned, ErrorCodeNoCandidate} -> StatusConflict
    [] OTHER -> StatusInternalServerError

\* the message the method `name` gives errWithCode when it returns `code` at
\* the statement `at` ("idle": at its first storage call)
Message(name, at, code) ==
  CASE code = ErrorCodeTeamExists -> "team_name already exists"
    [] code = ErrorCodePRExists -> "PR id already exists"
    [] code = ErrorCodePRMerged -> "cannot reassign on merged PR"
    [] code = ErrorCodeNotAssigned -> "reviewer is not assigned to this PR"
    [] code = ErrorCodeNoCandidate -> "no active replacement candidate in team"
    [] code = ErrorCodeNotFound /\ name = "GetTeam" -> "team not found"
    [] code = ErrorCodeNotFound /\ name = "SetUserActive" -> "user not found"
    [] code = ErrorCodeNotFound /\ name = "Merge" -> "pr not found"
    [] code = ErrorCodeNotFound /\ name = "GetReviewPRs" -> "user or prs not found"
    [] code = ErrorCodeNotFound /\ at = "Create_GetUser" -> "author not found"
    [] code = ErrorCodeNotFound /\ at = "Reassign_GetUser" -> "user not found"
    [] code = ErrorCodeNotFound /\ at \in {"idle", "Reassign_ListReviewers"} -> "pr not found"
    [] OTHER -> "team not found"

\* the text the method puts before the error of the storage call that failed
\* at the statement `at`
Prefix(name, at) ==
  CASE name = "AddTeam" /\ at = "idle" -> "failed create team"
    [] name = "AddTeam" -> "failed upsert user"
    [] name = "SetUserActive" -> "failed update user"
    [] at = "Create_CreatePullRequest" -> "failed create pr"
    [] at = "Create_AssignReviewer" -> "failed assign reviewer"
    [] OTHER -> "failed update pr"

\* the error value the method `name` returns with the result `code` at `at`
ReturnedError(name, at, code) ==
  IF code = Ok THEN NilError
  ELSE IF code = Untyped THEN Errorf(Prefix(name, at), Cause)
  ELSE errWithCode(code, Message(name, at, code))

\* the status the handler of the method `name` writes for the error e
HandlerStatus(name, e) ==
  IF e = NilError
  THEN IF name \in {"AddTeam", "Create"} THEN StatusCreated ELSE StatusOK
  ELSE getStatusByCode(ParseCodeFromError(e))

\* the code of the response body: that of a *models.ErrorResponse, or
\* INTERNAL_ERROR
BodyCode(e) ==
  IF e = NilError THEN "" ELSE IF e.typed THEN e.Code ELSE "INTERNAL_ERROR"

\* the method process p is in
Method(p) == IF pc[p] = "idle" THEN call'[p].name ELSE call[p].name

\* a service method returns r and its handler writes the response; the locals die
Return(p, r) ==
  /\ pc' = [pc EXCEPT ![p] = "idle"]
  /\ ret' = [ret EXCEPT ![p] =
              [r EXCEPT !.fault = @ \/ loc[p].fault,
                        !.status = HandlerStatus(Method(p),
                                                 ReturnedError(Method(p), pc[p], r.code)),
                        !.body = BodyCode(ReturnedError(Method(p), pc[p], r.code))]]
  /\ loc' = [loc EXCEPT ![p] = Loc0]

\* a handler moves on to statement l with locals v
Goto(p, l, v) ==
  /\ pc' = [pc EXCEPT ![p] = l]
  /\ loc' = [loc EXCEPT ![p] = v]

\* a handler that was entered earlier goes on
Running(p) == UNCHANGED <<call, pre, ncalls, nups>>

Failure(code, w) == [NoRet EXCEPT !.code = code, !.writes = w]


\* ------------------------------------------------- the pure code of Service
\* mutant of CreateCandidates: inactive members are candidates too
CreateCandidatesAnyActivity(rows, authorID) == {m \in rows : m.UserID # authorID}

\* CreatePullRequest: the active members of the author's team, the author excluded
CreateCandidates(rows, authorID) ==
  {m \in rows : m.IsActive /\ m.UserID # authorID}

\* the draws of s.rnd.Intn(i + 1) for i = n-1 .. 1 (here i = n .. 2, 1-based)
Draws(n) == {r \in [2..n -> 1..n] : \A i \in 2..n : r[i] <= i}

\* mutant of FisherYates: no swap, the candidates stay in the order of the rows
FisherYatesNoSwap(c, i, r) == c

\* the Fisher-Yates loop from position i down, with the draws r
RECURSIVE FisherYates(_, _, _)
FisherYates(c, i, r) ==
  IF i < 2 THEN c ELSE FisherYates(Swap(c, i, r[i]), i - 1, r)

\* mutant of Limit: up to three reviewers
LimitThree(c) == IF Len(c) < 3 THEN Len(c) ELSE 3

\* limit := 2; if len(candidates) < 2 { limit = len(candidates) }
Limit(c) == IF Len(c) < 2 THEN Len(c) ELSE 2

\* the user IDs of the first Limit(c) candidates
Assigned(c) == [i \in 1..Limit(c) |-> c[i].UserID]

\* mutant of FindReviewer: the first slot, whoever holds it
FindReviewerFirst(revs, old) == IF Len(revs) > 0 THEN 1 ELSE 0

\* the index of the first entry equal to old (1-based), 0 where the code has -1
FindReviewer(revs, old) ==
  IF \E i \in DOMAIN revs : revs[i] = old
  THEN Min({i \in DOMAIN revs : revs[i] = old})
  ELSE 0

\* mutant of Exclude: the author is not excluded
ExcludeNoAuthor(pr, old) == {old} \cup Range(pr.AssignedReviewers)

\* mutant of Exclude: the current reviewers are not excluded
ExcludeOldAndAuthor(pr, old) == {old} \cup {pr.AuthorID}

\* ReassignReviewer: the exclusion set
Exclude(pr, old) == {old} \cup Range(pr.AssignedReviewers) \cup {pr.AuthorID}

\* mutant of ReassignCandidates: inactive members are candidates too
ReassignCandidatesAnyActivity(rows, pr, old) ==
  {m \in rows : m.UserID \notin {old} \cup Range(pr.AssignedReviewers) \cup {pr.AuthorID}}

\* ReassignReviewer: the active members of the old reviewer's team not excluded
ReassignCandidates(rows, pr, old) ==
  {m \in rows : m.IsActive /\ m.UserID \notin Exclude(pr, old)}

\* s.rnd.Intn(n): any of 0 .. n-1
Intn(n) == 0..(n - 1)

\* ReassignReviewer: candidates[idx].UserID (the slice is 0-based)
Pick(c, idx) == c[idx + 1].UserID

\* mutant of AlreadyMerged: no idempotence test
AlreadyMergedNever(pr) == FALSE

\* mutant of RefusedAsMerged: a merged pull request is not refused
RefusedNever(pr) == FALSE

\* MergePullRequest: the idempotence test, if pr.Status == models.PRStatusMerged
AlreadyMerged(pr) == pr.Status = PRStatusMerged

\* ReassignReviewer: the test that refuses a merged pull request
RefusedAsMerged(pr) == pr.Status = PRStatusMerged

\* mutant of Merged: the status is not set
MergedStampOnly(pr, now) == [pr EXCEPT !.MergedAt = now]

\* MergePullRequest: pr.Status = MERGED; pr.MergedAt = time.Now().UTC()
Merged(pr, now) == [pr EXCEPT !.Status = PRStatusMerged, !.MergedAt = now]

\* ------------------------------------------------------------- AddTeam
AddTeam_CreateTeam(p, t) ==
  /\ Begin(p, [NoCall EXCEPT !.name = "AddTeam", !.team = t])
  /\ LET r == CreateTeam(db, t) IN
       IF r.err = "unique"
       THEN /\ Return(p, Failure(ErrorCodeTeamExists, 0))
            /\ UNCHANGED <<db, clock>>
       ELSE /\ db' = r.db
            /\ ret' = [ret EXCEPT ![p] = NoRet]
            /\ Goto(p, "AddTeam_UpsertUser", [Loc0 EXCEPT !.writes = 1])
            /\ UNCHANGED clock

\* one iteration of the loop over team.Members: the request's next member is m
\* (loc.i counts the members consumed, loc.members collects them)
AddTeam_UpsertUser(p, m) ==
  /\ pc[p] = "AddTeam_UpsertUser"
  /\ loc[p].i < MaxMembers
  /\ nups < MaxUpserts
  /\ nups' = nups + 1
  /\ LET u == [UserID |-> m.UserID, Username |-> m.Username,
               TeamName |-> call[p].team, IsActive |-> m.IsActive]
         r == UpsertUser(db, u)
     IN IF r.err # ""
        THEN /\ Goto(p, "AddTeam_DeleteTeam",
                     [loc[p] EXCEPT !.members = @ \cup {m}, !.i = @ + 1])
             /\ UNCHANGED db
        ELSE /\ db' = r.db
             /\ Goto(p, "AddTeam_UpsertUser",
                     [loc[p] EXCEPT !.members = @ \cup {m}, !.i = @ + 1, !.writes = @ + 1])
  /\ UNCHANGED <<call, pre, ncalls>>
  /\ UNCHANGED <<clock, ret>>

\* the loop is over: the request had no further member
AddTeam_Return(p) ==
  /\ pc[p] = "AddTeam_UpsertUser"
  /\ Return(p, [NoRet EXCEPT !.code = Ok, !.members = loc[p].members,
                             !.writes = loc[p].writes])
  /\ Running(p)
  /\ UNCHANGED <<db, clock>>

\* the compensating delete after a failed upsert, then the upsert's error
AddTeam_DeleteTeam(p) ==
  /\ pc[p] = "AddTeam_DeleteTeam"
  /\ db' = DeleteTeam(db, call[p].team).db
  /\ Return(p, [Failure(Untyped, loc[p].writes + 1) EXCEPT
                  !.members = loc[p].members, !.fault = loc[p].fault,
                  !.undo = "deleted"])
  /\ Running(p)
  /\ UNCHANGED clock

\* --------------------------------------------------------- SetUserActive
SetUserActive_GetUser(p, uid, isActive) ==
  /\ Begin(p, [NoCall EXCEPT !.name = "SetUserActive", !.user = uid, !.active = isActive])
  /\ LET r == GetUser(db, uid) IN
       IF r.err # ""
       THEN Return(p, Failure(ErrorCodeNotFound, 0))
       ELSE /\ ret' = [ret EXCEPT ![p] = NoRet]
            /\ Goto(p, "SetUserActive_UpdateUser",
                    [Loc0 EXCEPT !.user = [r.user EXCEPT !.IsActive = isActive]])
  /\ UNCHANGED <<db, clock>>

SetUserActive_UpdateUser(p) ==
  /\ pc[p] = "SetUserActive_UpdateUser"
  /\ LET r == UpdateUser(db, loc[p].user) IN
       IF r.err # ""
       THEN /\ Return(p, Failure(Untyped, 0))
            /\ UNCHANGED db
       ELSE /\ db' = r.db
            /\ Return(p, [NoRet EXCEPT !.code = Ok, !.user = loc[p].user, !.writes = 1])
  /\ Running(p)
  /\ UNCHANGED clock


\* ------------------------------------------------------ CreatePullRequest
\* GetPullRequest, first query: no row is an error, and the handler goes on
Create_GetPullRequest(p, id, name, author) ==
  /\ Begin(p, [NoCall EXCEPT !.name = "Create", !.id = id, !.prname = name,
                             !.author = author])
  /\ ret' = [ret EXCEPT ![p] = NoRet]
  /\ IF SelectPullRequest(db, id).err # ""
     THEN Goto(p, "Create_GetUser", Loc0)
     ELSE Goto(p, "Create_ListReviewers", Loc0)
  /\ UNCHANGED <<db, clock>>

\* GetPullRequest, second query: it returns without error, so the PR exists
Create_ListReviewers(p) ==
  /\ pc[p] = "Create_ListReviewers"
  /\ Return(p, Failure(ErrorCodePRExists, 0))
  /\ Running(p)
  /\ UNCHANGED <<db, clock>>

Create_GetUser(p) ==
  /\ pc[p] = "Create_GetUser"
  /\ LET r == GetUser(db, call[p].author) IN
       IF r.err # ""
       THEN /\ Return(p, Failure(ErrorCodeNotFound, 0))
       ELSE /\ Goto(p, "Create_GetTeamUsers", [loc[p] EXCEPT !.user = r.user])
            /\ UNCHANGED ret
  /\ Running(p)
  /\ UNCHANGED <<db, clock>>

\* GetTeam, first query: the rows of the author's team
Create_GetTeamUsers(p) ==
  /\ pc[p] = "Create_GetTeamUsers"
  /\ Goto(p, "Create_GetTeamCount",
          [loc[p] EXCEPT !.rows = SelectTeamUsers(db, loc[p].user.TeamName)])
  /\ Running(p)
  /\ UNCHANGED <<db, clock, ret>>

\* GetTeam, second query, then the selection: the rows come in any order, the
\* shuffle draws are any the generator can return, now is the clock
Create_GetTeamCount(p) ==
  /\ pc[p] = "Create_GetTeamCount"
  /\ IF CountTeams(db, loc[p].user.TeamName) = 0
     THEN /\ Return(p, Failure(ErrorCodeNotFound, 0))
          /\ UNCHANGED clock
     ELSE /\ \E c \in Orderings(CreateCandidates(loc[p].rows, loc[p].user.UserID)) :
               \E r \in Draws(Len(c)) :
                 Goto(p, "Create_CreatePullRequest",
                      [loc[p] EXCEPT
                         !.assigned = Assigned(FisherYates(c, Len(c), r)),
                         !.pr = [PullRequestID |-> call[p].id,
                                 PullRequestName |-> call[p].prname,
                                 AuthorID |-> call[p].author,
                                 Status |-> PRStatusOpen,
                                 AssignedReviewers |-> Assigned(FisherYates(c, Len(c), r)),
                                 CreatedAt |-> clock,
                                 MergedAt |-> ZeroTime]])
          /\ clock' = clock + 1
          /\ UNCHANGED ret
  /\ Running(p)
  /\ UNCHANGED db

Create_CreatePullRequest(p) ==
  /\ pc[p] = "Create_CreatePullRequest"
  /\ LET r == CreatePullRequest(db, loc[p].pr) IN
       IF r.err # ""
       THEN /\ Return(p, Failure(Untyped, 0))
            /\ UNCHANGED db
       ELSE /\ db' = r.db
            /\ IF Len(loc[p].assigned) = 0
               THEN Return(p, [NoRet EXCEPT !.code = Ok, !.pr = loc[p].pr, !.writes = 1])
               ELSE /\ Goto(p, "Create_AssignReviewer",
                            [loc[p] EXCEPT !.i = 1, !.writes = 1])
                    /\ UNCHANGED ret
  /\ Running(p)
  /\ UNCHANGED clock

\* one iteration of the loop over assigned
Create_AssignReviewer(p) ==
  /\ pc[p] = "Create_AssignReviewer"
  /\ LET r == AssignReviewer(db, loc[p].pr.PullRequestID, loc[p].assigned[loc[p].i]) IN
       IF r.err # ""
       THEN /\ Return(p, Failure(Untyped, loc[p].writes))
            /\ UNCHANGED db
       ELSE /\ db' = r.db
            /\ IF loc[p].i = Len(loc[p].assigned)
               THEN Return(p, [NoRet EXCEPT !.code = Ok, !.pr = loc[p].pr,
                                            !.writes = loc[p].writes + 1])
               ELSE /\ Goto(p, "Create_AssignReviewer",
                            [loc[p] EXCEPT !.i = @ + 1, !.writes = @ + 1])
                    /\ UNCHANGED ret
  /\ Running(p)
  /\ UNCHANGED clock

\* ------------------------------------------------------- MergePullRequest
Merge_GetPullRequest(p, id) ==
  /\ Begin(p, [NoCall EXCEPT !.name = "Merge", !.id = id])
  /\ LET r == SelectPullRequest(db, id) IN
       IF r.err # ""
       THEN Return(p, Failure(ErrorCodeNotFound, 0))
       ELSE /\ ret' = [ret EXCEPT ![p] = NoRet]
            /\ Goto(p, "Merge_ListReviewers", [Loc0 EXCEPT !.pr = r.pr])
  /\ UNCHANGED <<db, clock>>

\* GetPullRequest, second query, then the status test and the stamp
Merge_ListReviewers(p) ==
  /\ pc[p] = "Merge_ListReviewers"
  /\ LET pr == [loc[p].pr EXCEPT
                  !.AssignedReviewers = ListReviewersByPR(db, call[p].id)]
     IN IF AlreadyMerged(pr)
        THEN /\ Return(p, [NoRet EXCEPT !.code = Ok, !.pr = pr])
             /\ UNCHANGED clock
        ELSE /\ Goto(p, "UpdatePullRequest_Update",
                     [loc[p] EXCEPT !.pr = Merged(pr, clock)])
             /\ clock' = clock + 1
             /\ UNCHANGED ret
  /\ Running(p)
  /\ UNCHANGED db

\* ------------------------------------------------------- ReassignReviewer
Reassign_GetPullRequest(p, id, old) ==
  /\ Begin(p, [NoCall EXCEPT !.name = "Reassign", !.id = id, !.old = old])
  /\ LET r == SelectPullRequest(db, id) IN
       IF r.err # ""
       THEN Return(p, Failure(ErrorCodeNotFound, 0))
       ELSE /\ ret' = [ret EXCEPT ![p] = NoRet]
            /\ Goto(p, "Reassign_ListReviewers", [Loc0 EXCEPT !.pr = r.pr])
  /\ UNCHANGED <<db, clock>>

\* GetPullRequest, second query, then the status test and the search for old
Reassign_ListReviewers(p) ==
  /\ pc[p] = "Reassign_ListReviewers"
  /\ LET pr == [loc[p].pr EXCEPT
                  !.AssignedReviewers = ListReviewersByPR(db, call[p].id)]
         found == FindReviewer(pr.AssignedReviewers, call[p].old)
     IN IF RefusedAsMerged(pr)
        THEN Return(p, Failure(ErrorCodePRMerged, 0))
        ELSE IF found = 0
        THEN Return(p, Failure(ErrorCodeNotAssigned, 0))
        ELSE /\ Goto(p, "Reassign_GetUser", [loc[p] EXCEPT !.pr = pr, !.found = found])
             /\ UNCHANGED ret
  /\ Running(p)
  /\ UNCHANGED <<db, clock>>

Reassign_GetUser(p) ==
  /\ pc[p] = "Reassign_GetUser"
  /\ LET r == GetUser(db, call[p].old) IN
       IF r.err # ""
       THEN /\ Return(p, Failure(ErrorCodeNotFound, 0))
       ELSE /\ Goto(p, "Reassign_GetTeamUsers", [loc[p] EXCEPT !.user = r.user])
            /\ UNCHANGED ret
  /\ Running(p)
  /\ UNCHANGED <<db, clock>>

\* GetTeam, first query: the rows of the old reviewer's team
Reassign_GetTeamUsers(p) ==
  /\ pc[p] = "Reassign_GetTeamUsers"
  /\ Goto(p, "Reassign_GetTeamCount",
          [loc[p] EXCEPT !.rows = SelectTeamUsers(db, loc[p].user.TeamName)])
  /\ Running(p)
  /\ UNCHANGED <<db, clock, ret>>

\* GetTeam, second query, then the choice of the replacement: the rows come in
\* any order, idx is any number the generator can return, and candidates[idx]
\* is written over the slot of old
Reassign_GetTeamCount(p) ==
  /\ pc[p] = "Reassign_GetTeamCount"
  /\ LET cands == ReassignCandidates(loc[p].rows, loc[p].pr, call[p].old) IN
       IF CountTeams(db, loc[p].user.TeamName) = 0
       THEN Return(p, Failure(ErrorCodeNotFound, 0))
       ELSE IF cands = {}
       THEN Return(p, Failure(ErrorCodeNoCandidate, 0))
       ELSE /\ \E c \in Orderings(cands) :
                 \E idx \in Intn(Len(c)) :
                   Goto(p, "UpdatePullRequest_Update",
                        [loc[p] EXCEPT
                           !.newReviewer = Pick(c, idx),
                           !.pr.AssignedReviewers[loc[p].found] = Pick(c, idx)])
            /\ UNCHANGED ret
  /\ Running(p)
  /\ UNCHANGED <<db, clock>>

\* ------------------------------- Storage.UpdatePullRequest, three statements
UpdatePullRequest_Update(p) ==
  /\ pc[p] = "UpdatePullRequest_Update"
  /\ LET r == UpdatePullRequestRow(db, loc[p].pr) IN
       IF r.err # ""
       THEN /\ Return(p, Failure(Untyped, 0))
            /\ UNCHANGED db
       ELSE /\ db' = r.db
            /\ Goto(p, "UpdatePullRequest_Delete", [loc[p] EXCEPT !.writes = 1])
            /\ UNCHANGED ret
  /\ Running(p)
  /\ UNCHANGED clock

\* what Merge and Reassign return once UpdatePullRequest returned nil
Updated(p) ==
  [NoRet EXCEPT !.code = Ok, !.pr = loc[p].pr, !.replaced_by = loc[p].newReviewer,
                !.writes = loc[p].writes + 1]

UpdatePullRequest_Delete(p) ==
  /\ pc[p] = "UpdatePullRequest_Delete"
  /\ db' = DeleteReviewers(db, loc[p].pr.PullRequestID).db
  /\ IF Len(loc[p].pr.AssignedReviewers) = 0
     THEN Return(p, Updated(p))
     ELSE /\ Goto(p, "UpdatePullRequest_Insert", [loc[p] EXCEPT !.i = 1, !.writes = @ + 1])
          /\ UNCHANGED ret
  /\ Running(p)
  /\ UNCHANGED clock

\* mutant of UpdatePullRequest_Insert: the loop starts the replacement over
UpdatePullRequest_InsertStartsOver(p) ==
  /\ pc[p] = "UpdatePullRequest_Insert"
  /\ Goto(p, "UpdatePullRequest_Delete", [loc[p] EXCEPT !.writes = 1])
  /\ Running(p)
  /\ UNCHANGED <<db, clock, ret>>

\* one iteration of the loop over pr.AssignedReviewers
UpdatePullRequest_Insert(p) ==
  /\ pc[p] = "UpdatePullRequest_Insert"
  /\ LET r == AssignReviewer(db, loc[p].pr.PullRequestID,
                             loc[p].pr.AssignedReviewers[loc[p].i]) IN
       IF r.err # ""
       THEN /\ Return(p, Failure(Untyped, loc[p].writes))
            /\ UNCHANGED db
       ELSE /\ db' = r.db
            /\ IF loc[p].i = Len(loc[p].pr.AssignedReviewers)
               THEN Return(p, Updated(p))
               ELSE /\ Goto(p, "UpdatePullRequest_Insert",
                            [loc[p] EXCEPT !.i = @ + 1, !.writes = @ + 1])
                    /\ UNCHANGED ret
  /\ Running(p)
  /\ UNCHANGED clock

\* ---------------------------------------------------------------- GetTeam
\* Storage.GetTeam, first query: the rows of the team
GetTeam_Users(p, t) ==
  /\ Begin(p, [NoCall EXCEPT
                 !.name = "GetTeam", !.team = t,
                 !.prev = [name |-> call[p].name, team |-> call[p].team,
                           code |-> ret[p].code, members |-> ret[p].members,
                           undo |-> ret[p].undo, pre |-> pre[p]]])
  /\ ret' = [ret EXCEPT ![p] = NoRet]
  /\ Goto(p, "GetTeam_Count", [Loc0 EXCEPT !.rows = SelectTeamUsers(db, t)])
  /\ UNCHANGED <<db, clock>>

\* Storage.GetTeam, second query: no team row is "team not found", which the
\* service returns as NOT_FOUND; otherwise the rows read before are the members
GetTeam_Count(p) ==
  /\ pc[p] = "GetTeam_Count"
  /\ IF CountTeams(db, call[p].team) = 0
     THEN Return(p, Failure(ErrorCodeNotFound, 0))
     ELSE Return(p, [NoRet EXCEPT !.code = Ok, !.members = loc[p].rows])
  /\ Running(p)
  /\ UNCHANGED <<db, clock>>

\* ------------------------------------------------------------ GetReviewPRs
\* one query; the user need not be stored
GetReviewPRs_List(p, uid) ==
  /\ Begin(p, [NoCall EXCEPT !.name = "GetReviewPRs", !.user = uid])
  /\ Return(p, [NoRet EXCEPT !.code = Ok, !.prs = ListPRsByReviewer(db, uid)])
  /\ UNCHANGED <<db, clock>>

\* ------------------------------------------- storage calls that fail
\* A storage call can fail with an error that is neither "no rows" nor a
\* constraint violation (the connection is lost, the statement times out); the
\* statement then has no effect.  Each action below is the failure of one call
\* and what the service does with the error.

\* the first storage call of the method entered fails and the method returns `code`
BeginFault(p, code) ==
  /\ Return(p, [Failure(code, 0) EXCEPT !.fault = TRUE])
  /\ UNCHANGED <<db, clock>>

\* the storage call of the running method fails and the method returns `code`
Fault(p, code) ==
  /\ Return(p, [Failure(code, loc[p].writes) EXCEPT !.fault = TRUE])
  /\ Running(p)
  /\ UNCHANGED <<db, clock>>

\* CreateTeam fails with no unique violation: "failed create team"
AddTeam_CreateTeam_Fails(p, t) ==
  /\ Begin(p, [NoCall EXCEPT !.name = "AddTeam", !.team = t])
  /\ BeginFault(p, Untyped)

\* UpsertUser fails for the request's next member m: on to the compensating delete
AddTeam_UpsertUser_Fails(p, m) ==
  /\ pc[p] = "AddTeam_UpsertUser"
  /\ loc[p].i < MaxMembers
  /\ nups < MaxUpserts
  /\ nups' = nups + 1
  /\ Goto(p, "AddTeam_DeleteTeam",
          [loc[p] EXCEPT !.members = @ \cup {m}, !.i = @ + 1, !.fault = TRUE])
  /\ UNCHANGED <<call, pre, ncalls>>
  /\ UNCHANGED <<db, clock, ret>>

\* the compensating delete fails too: _ = s.storage.DeleteTeam(...) drops its
\* error, the team row and the members upserted so far stay
AddTeam_DeleteTeam_Fails(p) ==
  /\ pc[p] = "AddTeam_DeleteTeam"
  /\ Return(p, [Failure(Untyped, loc[p].writes) EXCEPT
                  !.members = loc[p].members, !.fault = TRUE, !.undo = "failed"])
  /\ Running(p)
  /\ UNCHANGED <<db, clock>>

\* Service.GetTeam turns every error of Storage.GetTeam into NOT_FOUND
GetTeam_Users_Fails(p, t) ==
  /\ Begin(p, [NoCall EXCEPT !.name = "GetTeam", !.team = t])
  /\ BeginFault(p, ErrorCodeNotFound)

GetTeam_Count_Fails(p) ==
  /\ pc[p] = "GetTeam_Count"
  /\ Fault(p, ErrorCodeNotFound)

\* GetReviewPRs turns every error of ListPRsByReviewer into NOT_FOUND
GetReviewPRs_List_Fails(p, uid) ==
  /\ Begin(p, [NoCall EXCEPT !.name = "GetReviewPRs", !.user = uid])
  /\ BeginFault(p, ErrorCodeNotFound)

\* SetUserActive turns every error of GetUser into NOT_FOUND
SetUserActive_GetUser_Fails(p, uid, isActive) ==
  /\ Begin(p, [NoCall EXCEPT !.name = "SetUserActive", !.user = uid, !.active = isActive])
  /\ BeginFault(p, ErrorCodeNotFound)

SetUserActive_UpdateUser_Fails(p) ==
  /\ pc[p] = "SetUserActive_UpdateUser"
  /\ Fault(p, Untyped)

\* CreatePullRequest reads every error of GetPullRequest as "no such pull
\* request" and goes on
Create_GetPullRequest_Fails(p, id, name, author) ==
  /\ Begin(p, [NoCall EXCEPT !.name = "Create", !.id = id, !.prname = name,
                             !.author = author])
  /\ ret' = [ret EXCEPT ![p] = NoRet]
  /\ Goto(p, "Create_GetUser", [Loc0 EXCEPT !.fault = TRUE])
  /\ UNCHANGED <<db, clock>>

Create_ListReviewers_Fails(p) ==
  /\ pc[p] = "Create_ListReviewers"
  /\ Goto(p, "Create_GetUser", [loc[p] EXCEPT !.fault = TRUE])
  /\ Running(p)
  /\ UNCHANGED <<db, clock, ret>>

Create_GetUser_Fails(p) ==
  /\ pc[p] = "Create_GetUser"
  /\ Fault(p, ErrorCodeNotFound)

Create_GetTeamUsers_Fails(p) ==
  /\ pc[p] = "Create_GetTeamUsers"
  /\ Fault(p, ErrorCodeNotFound)

Create_GetTeamCount_Fails(p) ==
  /\ pc[p] = "Create_GetTeamCount"
  /\ Fault(p, ErrorCodeNotFound)

Create_CreatePullRequest_Fails(p) ==
  /\ pc[p] = "Create_CreatePullRequest"
  /\ Fault(p, Untyped)

Create_AssignReviewer_Fails(p) ==
  /\ pc[p] = "Create_AssignReviewer"
  /\ Fault(p, Untyped)

\* MergePullRequest turns every error of GetPullRequest into NOT_FOUND
Merge_GetPullRequest_Fails(p, id) ==
  /\ Begin(p, [NoCall EXCEPT !.name = "Merge", !.id = id])
  /\ BeginFault(p, ErrorCodeNotFound)

Merge_ListReviewers_Fails(p) ==
  /\ pc[p] = "Merge_ListReviewers"
  /\ Fault(p, ErrorCodeNotFound)

\* ReassignReviewer turns every error of GetPullRequest, GetUser and GetTeam
\* into NOT_FOUND
Reassign_GetPullRequest_Fails(p, id, old) ==
  /\ Begin(p, [NoCall EXCEPT !.name = "Reassign", !.id = id, !.old = old])
  /\ BeginFault(p, ErrorCodeNotFound)

Reassign_ListReviewers_Fails(p) ==
  /\ pc[p] = "Reassign_ListReviewers"
  /\ Fault(p, ErrorCodeNotFound)

Reassign_GetUser_Fails(p) ==
  /\ pc[p] = "Reassign_GetUser"
  /\ Fault(p, ErrorCodeNotFound)

Reassign_GetTeamUsers_Fails(p) ==
  /\ pc[p] = "Reassign_GetTeamUsers"
  /\ Fault(p, ErrorCodeNotFound)

Reassign_GetTeamCount_Fails(p) ==
  /\ pc[p] = "Reassign_GetTeamCount"
  /\ Fault(p, ErrorCodeNotFound)

\* a failed statement of UpdatePullRequest: what the earlier statements wrote stays
UpdatePullRequest_Update_Fails(p) ==
  /\ pc[p] = "UpdatePullRequest_Update"
  /\ Fault(p, Untyped)

UpdatePullRequest_Delete_Fails(p) ==
  /\ pc[p] = "UpdatePullRequest_Delete"
  /\ Fault(p, Untyped)

UpdatePullRequest_Insert_Fails(p) ==
  /\ pc[p] = "UpdatePullRequest_Insert"
  /\ Fault(p, Untyped)

\* ------------------------------------------------------ the specifications
AddTeam(p) ==
  \/ \E t \in TeamNames : AddTeam_CreateTeam(p, t)
  \/ \E m \in TeamMembers : AddTeam_UpsertUser(p, m)
  \/ AddTeam_Return(p)

GetTeam(p) ==
  \/ \E t \in TeamNames : GetTeam_Users(p, t)
  \/ GetTeam_Count(p)

SetUserActive(p) ==
  \/ \E uid \in UserIDs, isActive \in BOOLEAN : SetUserActive_GetUser(p, uid, isActive)
  \/ SetUserActive_UpdateUser(p)

Create(p) ==
  \/ \E id \in PRIDs, name \in PRNames, author \in UserIDs :
       Create_GetPullRequest(p, id, name, author)
  \/ Create_ListReviewers(p)
  \/ Create_GetUser(p)
  \/ Create_GetTeamUsers(p)
  \/ Create_GetTeamCount(p)
  \/ Create_CreatePullRequest(p)
  \/ Create_AssignReviewer(p)

Merge(p) ==
  \/ \E id \in PRIDs : Merge_GetPullRequest(p, id)
  \/ Merge_ListReviewers(p)

Reassign(p) ==
  \/ \E id \in PRIDs, old \in UserIDs : Reassign_GetPullRequest(p, id, old)
  \/ Reassign_ListReviewers(p)
  \/ Reassign_GetUser(p)
  \/ Reassign_GetTeamUsers(p)
  \/ Reassign_GetTeamCount(p)

\* the user IDs a request can name: the stored ones and one that never is
GetReviewPRs(p) ==
  \E uid \in 1..(NumUsers + 1) : GetReviewPRs_List(p, uid)

UpdatePullRequest(p) ==
  \/ UpdatePullRequest_Update(p)
  \/ UpdatePullRequest_Delete(p)
  \/ UpdatePullRequest_Insert(p)

\* one request at a time: a single process runs each handler to completion
Next ==
  \E p \in Seq1 :
    \/ AddTeam(p)
    \/ SetUserActive(p)
    \/ Create(p)
    \/ Merge(p)
    \/ Reassign(p)
    \/ UpdatePullRequest(p)

Spec == Init /\ [][Next]_vars


\* two requests on one pull request at once.  The initial states are states of
\* Spec: team T1 was added with the users 1..4, all active, and user 1 created
\* pull request 1, which got two of the users 2..4 as reviewers.
ConcDB(a, b) ==
  [teams |-> {"T1"},
   users |-> [u \in 1..4 |-> [username |-> "n1", is_active |-> TRUE, team_name |-> "T1"]],
   pull_requests |-> (1 :> [pull_request_name |-> "fix", author_id |-> 1,
                            status |-> PRStatusOpen, created_at |-> 1, merged_at |-> NULL]),
   reviewers |-> {<<1, a>>, <<1, b>>}]

InitConc ==
  /\ \E a, b \in 2..4 : a < b /\ db = ConcDB(a, b)
  /\ clock = 2
  /\ pc = [p \in Procs |-> "idle"]
  /\ call = [p \in Procs |-> NoCall]
  /\ loc = [p \in Procs |-> Loc0]
  /\ ret = [p \in Procs |-> NoRet]
  /\ pre = [p \in Procs |-> EmptyDB]
  /\ ncalls = 2
  /\ nups = 4

NextConc ==
  \E p \in Procs :
    \/ Merge(p)
    \/ Reassign(p)
    \/ UpdatePullRequest(p)

SpecConc == InitConc /\ [][NextConc]_vars

\* the team registry alone, one request at a time
NextTeam ==
  \E p \in Seq1 :
    \/ AddTeam(p)
    \/ GetTeam(p)
    \/ SetUserActive(p)

SpecTeam == Init /\ [][NextTeam]_vars

\* one request at a time, and every storage call may fail
Faults(p) ==
  \/ \E t \in TeamNames : AddTeam_CreateTeam_Fails(p, t)
  \/ \E m \in TeamMembers : AddTeam_UpsertUser_Fails(p, m)
  \/ AddTeam_DeleteTeam_Fails(p)
  \/ \E t \in TeamNames : GetTeam_Users_Fails(p, t)
  \/ GetTeam_Count_Fails(p)
  \/ \E uid \in UserIDs, isActive \in BOOLEAN : SetUserActive_GetUser_Fails(p, uid, isActive)
  \/ SetUserActive_UpdateUser_Fails(p)
  \/ \E id \in PRIDs, name \in PRNames, author \in UserIDs :
       Create_GetPullRequest_Fails(p, id, name, author)
  \/ Create_ListReviewers_Fails(p)
  \/ Create_GetUser_Fails(p)
  \/ Create_GetTeamUsers_Fails(p)
  \/ Create_GetTeamCount_Fails(p)
  \/ Create_CreatePullRequest_Fails(p)
  \/ Create_AssignReviewer_Fails(p)
  \/ \E id \in PRIDs : Merge_GetPullRequest_Fails(p, id)
  \/ Merge_ListReviewers_Fails(p)
  \/ \E id \in PRIDs, old \in UserIDs : Reassign_GetPullRequest_Fails(p, id, old)
  \/ Reassign_ListReviewers_Fails(p)
  \/ Reassign_GetUser_Fails(p)
  \/ Reassign_GetTeamUsers_Fails(p)
  \/ Reassign_GetTeamCount_Fails(p)
  \/ UpdatePullRequest_Update_Fails(p)
  \/ UpdatePullRequest_Delete_Fails(p)
  \/ UpdatePullRequest_Insert_Fails(p)
  \/ \E uid \in 1..(NumUsers + 1) : GetReviewPRs_List_Fails(p, uid)

NextFault ==
  \E p \in Seq1 :
    \/ AddTeam(p)
    \/ AddTeam_DeleteTeam(p)
    \/ GetTeam(p)
    \/ SetUserActive(p)
    \/ Create(p)
    \/ Merge(p)
    \/ Reassign(p)
    \/ UpdatePullRequest(p)
    \/ GetReviewPRs(p)
    \/ Faults(p)

\* The initial state is a state of Spec: team T1 was added with the users 1 and
\* 2, both active.
FaultDB ==
  [teams |-> {"T1"},
   users |-> [u \in 1..2 |-> [username |-> "n1", is_active |-> TRUE, team_name |-> "T1"]],
   pull_requests |-> << >>,
   reviewers |-> {}]

InitFault ==
  /\ db = FaultDB
  /\ clock = 1
  /\ pc = [p \in Procs |-> "idle"]
  /\ call = [p \in Procs |-> NoCall]
  /\ loc = [p \in Procs |-> Loc0]
  /\ ret = [p \in Procs |-> NoRet]
  /\ pre = [p \in Procs |-> EmptyDB]
  /\ ncalls = 1
  /\ nups = 2

SpecFault == InitFault /\ [][NextFault]_vars

\* SetUserActive and AddTeam at once.  The initial state is a state of Spec:
\* team T1 was added with user 1, active.
ConcTeamDB ==
  [teams |-> {"T1"},
   users |-> (1 :> [username |-> "n1", is_active |-> TRUE, team_name |-> "T1"]),
   pull_requests |-> << >>,
   reviewers |-> {}]

InitConcTeam ==
  /\ db = ConcTeamDB
  /\ clock = 1
  /\ pc = [p \in Procs |-> "idle"]
  /\ call = [p \in Procs |-> NoCall]
  /\ loc = [p \in Procs |-> Loc0]
  /\ ret = [p \in Procs |-> NoRet]
  /\ pre = [p \in Procs |-> EmptyDB]
  /\ ncalls = 1
  /\ nups = 1

NextConcTeam ==
  \E p \in Procs :
    \/ AddTeam(p)
    \/ SetUserActive(p)

SpecConcTeam == InitConcTeam /\ [][NextConcTeam]_vars

\* every method, two requests at once, and every storage call may fail.  The
\* initial state is a state of the program: AddTeam registered T1 with the
\* users 1, 2 and 3, all active, and a GetTeam was served.
LiveDB ==
  [teams |-> {"T1"},
   users |-> [u \in 1..3 |-> [username |-> "n1", is_active |-> TRUE, team_name |-> "T1"]],
   pull_requests |-> << >>,
   reviewers |-> {}]

InitLive ==
  /\ db = LiveDB
  /\ clock = 1
  /\ pc = [p \in Procs |-> "idle"]
  /\ call = [p \in Procs |-> NoCall]
  /\ loc = [p \in Procs |-> Loc0]
  /\ ret = [p \in Procs |-> NoRet]
  /\ pre = [p \in Procs |-> EmptyDB]
  /\ ncalls = 2
  /\ nups = 3

\* a step of the request that process p serves, or its arrival
Serve(p) ==
  \/ AddTeam(p)
  \/ AddTeam_DeleteTeam(p)
  \/ GetTeam(p)
  \/ SetUserActive(p)
  \/ Create(p)
  \/ Merge(p)
  \/ Reassign(p)
  \/ UpdatePullRequest(p)
  \/ GetReviewPRs(p)
  \/ Faults(p)

NextLive == \E p \in Procs : Serve(p)

\* the next statement of the method process p runs
Step(p) == pc[p] # "idle" /\ Serve(p)

\* a goroutine that can run does run, and the storage call it makes returns
SpecLive == InitLive /\ [][NextLive]_vars /\ \A p \in Procs : WF_vars(Step(p))

\* selection, one request at a time.  The initial states are states of the
\* program: either AddTeam registered T1 with the users 1..4, all active; or
\* AddTeam registered T1 with the users 1 and 2, user 1 created pull request 1,
\* which got user 2 as its reviewer, and AddTeam registered T2 with the users 2,
\* 3 and 4, which moved user 2.  From the second one two further requests are
\* served.
SelectTeamDB ==
  [teams |-> {"T1"},
   users |-> [u \in 1..4 |-> [username |-> "n1", is_active |-> TRUE, team_name |-> "T1"]],
   pull_requests |-> << >>,
   reviewers |-> {}]

SelectPRDB ==
  [teams |-> {"T1", "T2"},
   users |-> [u \in 1..4 |-> [username |-> "n1", is_active |-> TRUE,
                              team_name |-> IF u = 1 THEN "T1" ELSE "T2"]],
   pull_requests |-> (1 :> [pull_request_name |-> "fix", author_id |-> 1,
                            status |-> PRStatusOpen, created_at |-> 1, merged_at |-> NULL]),
   reviewers |-> {<<1, 2>>}]

\* two OPEN pull requests of one team; the second has an id no request names
SelectTwoPRDB ==
  [teams |-> {"T1"},
   users |-> [u \in 1..4 |-> [username |-> "n1", is_active |-> TRUE, team_name |-> "T1"]],
   pull_requests |->
     (1 :> [pull_request_name |-> "fix", author_id |-> 1,
            status |-> PRStatusOpen, created_at |-> 1, merged_at |-> NULL])
     @@ ((NumPRs + 1) :> [pull_request_name |-> "fix", author_id |-> 2,
                          status |-> PRStatusOpen, created_at |-> 2, merged_at |-> NULL]),
   reviewers |-> {<<1, 2>>, <<1, 3>>, <<NumPRs + 1, 1>>, <<NumPRs + 1, 3>>}]

InitSelect ==
  /\ \/ db = SelectTeamDB /\ clock = 1 /\ ncalls = 1
     \/ db = SelectPRDB /\ clock = 2 /\ ncalls = 2
     \/ db = SelectTwoPRDB /\ clock = 3 /\ ncalls = 2
  /\ pc = [p \in Procs |-> "idle"]
  /\ call = [p \in Procs |-> NoCall]
  /\ loc = [p \in Procs |-> Loc0]
  /\ ret = [p \in Procs |-> NoRet]
  /\ pre = [p \in Procs |-> EmptyDB]
  /\ nups = 4

NextSelect ==
  \E p \in Seq1 :
    \/ SetUserActive(p)
    \/ Create(p)
    \/ Merge(p)
    \/ Reassign(p)
    \/ UpdatePullRequest(p)
    \/ GetReviewPRs(p)

SpecSelect == InitSelect /\ [][NextSelect]_vars

\* ------------------------------------------------------------ the claims
\* the users assigned to pull request id in the tables d
Reviewers(d, id) == {r[2] : r \in {x \in d.reviewers : x[1] = id}}

NoDuplicates(s) == \A i, j \in DOMAIN s : i # j => s[i] # s[j]

\* process p is back from the method `name`
Done(p, name) == pc[p] = "idle" /\ call[p].name = name /\ ret[p].code # ""

\* C1: with one request at a time, every stored pull request has at most two
\* reviewers, lists none of them twice, and is not reviewed by its author
C1_ReviewerSetWellFormed ==
  \A id \in DOMAIN db.pull_requests :
    LET revs == ListReviewersByPR(db, id) IN
      /\ Len(revs) <= 2
      /\ NoDuplicates(revs)
      /\ db.pull_requests[id].author_id \notin Range(revs)

C1_Witness ==
  /\ Done(1, "Reassign") /\ ret[1].code = Ok
  /\ Cardinality(Reviewers(db, call[1].id)) = 2

\* C2: once the stored status of a pull request is MERGED it is never OPEN again
C2_MergedIsTerminal ==
  [][\A id \in PRIDs :
       (HasPR(db, id) /\ db.pull_requests[id].status = PRStatusMerged)
         => ~(HasPR(db', id) /\ db'.pull_requests[id].status = PRStatusOpen)]_vars

\* C3: once merged_at of a pull request is set, no later step changes or clears it
C3_MergedAtWrittenOnce ==
  [][\A id \in PRIDs :
       (HasPR(db, id) /\ db.pull_requests[id].merged_at # NULL /\ HasPR(db', id))
         => db'.pull_requests[id].merged_at = db.pull_requests[id].merged_at]_vars

\* C4: Merge of a pull request that is already MERGED returns no error, executes
\* no write, leaves the tables as they were, and returns the stored pull request:
\* status MERGED, the stored merged_at and the stored reviewers
C4_MergeIdempotent ==
  \A p \in Procs :
    (/\ Done(p, "Merge")
     /\ HasPR(pre[p], call[p].id)
     /\ pre[p].pull_requests[call[p].id].status = PRStatusMerged)
    => /\ ret[p].code = Ok
       /\ ret[p].writes = 0
       /\ db = pre[p]
       /\ ret[p].pr.Status = PRStatusMerged
       /\ ret[p].pr.MergedAt = pre[p].pull_requests[call[p].id].merged_at
       /\ Range(ret[p].pr.AssignedReviewers) = Reviewers(pre[p], call[p].id)

C4_Witness ==
  /\ Done(1, "Merge")
  /\ HasPR(pre[1], call[1].id)
  /\ pre[1].pull_requests[call[1].id].status = PRStatusMerged
  /\ Reviewers(pre[1], call[1].id) # {}

\* C5: Reassign on a MERGED pull request fails with PR_MERGED, whoever the old
\* reviewer is, and leaves its reviewers, status and merged_at as they were
C5_ReassignOnMerged ==
  \A p \in Procs :
    (/\ Done(p, "Reassign")
     /\ HasPR(pre[p], call[p].id)
     /\ pre[p].pull_requests[call[p].id].status = PRStatusMerged)
    => /\ ret[p].code = ErrorCodePRMerged
       /\ HasPR(db, call[p].id)
       /\ db.pull_requests[call[p].id] = pre[p].pull_requests[call[p].id]
       /\ Reviewers(db, call[p].id) = Reviewers(pre[p], call[p].id)

C5_Witness ==
  /\ Done(1, "Reassign")
  /\ HasPR(pre[1], call[1].id)
  /\ pre[1].pull_requests[call[1].id].status = PRStatusMerged
  /\ call[1].old \in Reviewers(pre[1], call[1].id)

\* C6 as stated: Reassign with an old reviewer that is not assigned fails with
\* NOT_ASSIGNED, whether the pull request is OPEN or MERGED
C6_NotAssignedAnyStatus ==
  \A p \in Procs :
    (/\ Done(p, "Reassign")
     /\ HasPR(pre[p], call[p].id)
     /\ call[p].old \notin Reviewers(pre[p], call[p].id))
    => ret[p].code = ErrorCodeNotAssigned

\* C6 amended: on an OPEN pull request, Reassign with an old reviewer that is not
\* assigned fails with NOT_ASSIGNED; on a MERGED one it fails with PR_MERGED
C6_NotAssignedWhenOpen ==
  \A p \in Procs :
    (/\ Done(p, "Reassign")
     /\ HasPR(pre[p], call[p].id)
     /\ call[p].old \notin Reviewers(pre[p], call[p].id))
    => ret[p].code =
         IF pre[p].pull_requests[call[p].id].status = PRStatusOpen
         THEN ErrorCodeNotAssigned ELSE ErrorCodePRMerged

C6_Witness ==
  /\ Done(1, "Reassign")
  /\ HasPR(pre[1], call[1].id)
  /\ pre[1].pull_requests[call[1].id].status = PRStatusOpen
  /\ Reviewers(pre[1], call[1].id) # {}
  /\ call[1].old \notin Reviewers(pre[1], call[1].id)
  /\ ret[1].code = ErrorCodeNotAssigned


\* the active users of team t in the tables d
ActiveOfTeam(d, t) == {u \in UsersOfTeam(d, t) : d.users[u].is_active}

\* the replacement pool of Reassign(id, old) in the tables d
ReassignPool(d, id, old) ==
  ActiveOfTeam(d, d.users[old].team_name)
    \ ({d.pull_requests[id].author_id, old} \cup Reviewers(d, id))

\* C7: a successful Reassign(id, old) replaces exactly one reviewer: the stored
\* set becomes (R \ {old}) \cup {new}, of the size of R, where new is an active
\* member of old's team, is not old, not the author and not in R; the returned
\* pull request lists new where old was and the others where they were; the
\* returned replacement is new
C7_ReassignReplacesOne ==
  \A p \in Procs :
    (Done(p, "Reassign") /\ ret[p].code = Ok)
    => LET id == call[p].id
           old == call[p].old
           new == ret[p].replaced_by
           R == Reviewers(pre[p], id)
           L == ListReviewersByPR(pre[p], id)
       IN /\ pre[p].pull_requests[id].status = PRStatusOpen
          /\ old \in R
          /\ Reviewers(db, id) = (R \ {old}) \cup {new}
          /\ Cardinality(Reviewers(db, id)) = Cardinality(R)
          /\ new \in ActiveOfTeam(pre[p], pre[p].users[old].team_name)
          /\ new # old
          /\ new # pre[p].pull_requests[id].author_id
          /\ new \notin R
          /\ Len(ret[p].pr.AssignedReviewers) = Len(L)
          /\ \A i \in DOMAIN L :
               ret[p].pr.AssignedReviewers[i] = IF L[i] = old THEN new ELSE L[i]
          /\ db.pull_requests[id] = pre[p].pull_requests[id]

C7_Witness ==
  /\ Done(1, "Reassign") /\ ret[1].code = Ok
  /\ Cardinality(Reviewers(pre[1], call[1].id)) = 2
  /\ \E u \in DOMAIN pre[1].users : ~pre[1].users[u].is_active

\* C8: Reassign(id, old) on an OPEN pull request with old assigned fails with
\* NO_CANDIDATE exactly when old's team has no active member besides the author,
\* old and the assigned reviewers; the stored pull request is then unchanged
C8_NoCandidate ==
  \A p \in Procs :
    (/\ Done(p, "Reassign")
     /\ HasPR(pre[p], call[p].id)
     /\ pre[p].pull_requests[call[p].id].status = PRStatusOpen
     /\ call[p].old \in Reviewers(pre[p], call[p].id))
    => /\ (ret[p].code = ErrorCodeNoCandidate)
            <=> (ReassignPool(pre[p], call[p].id, call[p].old) = {})
       /\ ret[p].code = ErrorCodeNoCandidate
            => /\ HasPR(db, call[p].id)
               /\ db.pull_requests[call[p].id] = pre[p].pull_requests[call[p].id]
               /\ Reviewers(db, call[p].id) = Reviewers(pre[p], call[p].id)

\* the only other active teammate is the other reviewer
C8_Witness ==
  /\ Done(1, "Reassign") /\ ret[1].code = ErrorCodeNoCandidate
  /\ Cardinality(Reviewers(pre[1], call[1].id)) = 2

\* the pool of Create(id, name, author) in the tables d
CreatePool(d, author) == ActiveOfTeam(d, d.users[author].team_name) \ {author}

\* C9: a successful Create stores an OPEN pull request without merged_at whose
\* reviewers are min(2, |pool|) members of pool, the active members of the
\* author's team other than the author, and returns the reviewers it stored
C9_CreateAssigns ==
  \A p \in Procs :
    (Done(p, "Create") /\ ret[p].code = Ok)
    => LET id == call[p].id
           pool == CreatePool(pre[p], call[p].author)
           n == IF Cardinality(pool) < 2 THEN Cardinality(pool) ELSE 2
       IN /\ ~HasPR(pre[p], id)
          /\ HasPR(db, id)
          /\ db.pull_requests[id].status = PRStatusOpen
          /\ db.pull_requests[id].merged_at = NULL
          /\ db.pull_requests[id].author_id = call[p].author
          /\ Cardinality(Reviewers(db, id)) = n
          /\ Reviewers(db, id) \subseteq pool
          /\ Range(ret[p].pr.AssignedReviewers) = Reviewers(db, id)
          /\ Len(ret[p].pr.AssignedReviewers) = n

C9_Witness ==
  /\ Done(1, "Create") /\ ret[1].code = Ok
  /\ Cardinality(CreatePool(pre[1], call[1].author)) = 3

\* an empty pool gives a pull request without reviewers
C9_WitnessEmptyPool ==
  /\ Done(1, "Create") /\ ret[1].code = Ok
  /\ CreatePool(pre[1], call[1].author) = {}
  /\ Cardinality(UsersOfTeam(pre[1], pre[1].users[call[1].author].team_name)) > 1

\* C10: Create fails with PR_EXISTS when the id is taken, even for an unknown
\* author, and with NOT_FOUND when the id is free and the author unknown; the
\* tables are then as before the call
C10_CreateRefused ==
  \A p \in Procs :
    Done(p, "Create")
    => /\ HasPR(pre[p], call[p].id)
            => ret[p].code = ErrorCodePRExists /\ db = pre[p]
       /\ (~HasPR(pre[p], call[p].id) /\ ~HasUser(pre[p], call[p].author))
            => ret[p].code = ErrorCodeNotFound /\ db = pre[p]

C10_Witness ==
  /\ Done(1, "Create")
  /\ HasPR(pre[1], call[1].id)
  /\ ~HasUser(pre[1], call[1].author)

\* C11: AddTeam with a name that is already registered fails with TEAM_EXISTS,
\* executes no write and leaves every table as it was
C11_AddTeamExisting ==
  \A p \in Procs :
    (Done(p, "AddTeam") /\ HasTeam(pre[p], call[p].team))
    => /\ ret[p].code = ErrorCodeTeamExists
       /\ ret[p].writes = 0
       /\ db = pre[p]

C11_Witness ==
  /\ Done(1, "AddTeam")
  /\ HasTeam(pre[1], call[1].team)
  /\ UsersOfTeam(pre[1], call[1].team) # {}
  /\ \E t \in TeamNames \ {call[1].team} : UsersOfTeam(pre[1], t) # {}
  /\ DOMAIN pre[1].pull_requests # {}

\* process p is back from a GetTeam(t) that came right after a successful AddTeam
\* of the same team t
GetTeamAfterAddTeam(p) ==
  /\ Done(p, "GetTeam")
  /\ call[p].prev.name = "AddTeam"
  /\ call[p].prev.code = Ok
  /\ call[p].prev.team = call[p].team

\* C12: GetTeam right after a successful AddTeam succeeds and returns the
\* submitted members: the same user IDs, each with the submitted name and flag
C12_GetTeamReturnsSubmitted ==
  \A p \in Procs :
    GetTeamAfterAddTeam(p)
    => /\ ret[p].code = Ok
       /\ ret[p].members = call[p].prev.members

\* C12, for the member lists in which no user ID comes with two different
\* names or flags
C12_GetTeamReturnsSubmittedDistinctIDs ==
  \A p \in Procs :
    (/\ GetTeamAfterAddTeam(p)
     /\ \A m, n \in call[p].prev.members : m.UserID = n.UserID => m = n)
    => /\ ret[p].code = Ok
       /\ ret[p].members = call[p].prev.members

\* a GetTeam that returned fewer members than AddTeam had just accepted
C12_Witness ==
  /\ GetTeamAfterAddTeam(1)
  /\ ret[1].code = Ok
  /\ Cardinality(ret[1].members) < Cardinality(call[1].prev.members)

\* C13: an AddTeam in which a member upsert failed after the team row was
\* created returns an error; if its compensating delete succeeded, the team is
\* not registered afterwards, no user references it, and a GetTeam of that
\* name that comes next fails with NOT_FOUND
C13_FailedUpsertUndone ==
  \A p \in Procs :
    /\ (Done(p, "AddTeam") /\ ret[p].undo # "")
       => /\ ret[p].code = Untyped
          /\ ret[p].undo = "deleted"
             => /\ ~HasTeam(db, call[p].team)
                /\ UsersOfTeam(db, call[p].team) = {}
    /\ (/\ Done(p, "GetTeam")
        /\ call[p].prev.name = "AddTeam"
        /\ call[p].prev.undo = "deleted"
        /\ call[p].prev.team = call[p].team)
       => ret[p].code = ErrorCodeNotFound

\* a GetTeam after an AddTeam that had upserted one member, failed on the next
\* and deleted the team
C13_Witness ==
  /\ Done(1, "GetTeam")
  /\ call[1].prev.name = "AddTeam"
  /\ call[1].prev.undo = "deleted"
  /\ call[1].prev.team = call[1].team
  /\ Cardinality(call[1].prev.members) >= 2
  /\ ~ret[1].fault

\* C14: SetUserActive of a user that does not exist returns NOT_FOUND and
\* executes no write; otherwise it returns success, and at its return the stored
\* user has the flag of the request and the name and team it had when the
\* method was called, whatever another request did to that user in between
C14_SetUserActive ==
  [][\A p \in Procs :
       /\ (/\ pc'[p] = "idle"
           /\ call'[p].name = "SetUserActive"
           /\ ret'[p].code # ""
           /\ ~HasUser(pre'[p], call'[p].user))
          => /\ ret'[p].code = ErrorCodeNotFound
             /\ ret'[p].writes = 0
       /\ (pc'[p] = "SetUserActive_UpdateUser") => HasUser(pre'[p], call'[p].user)
       /\ (pc[p] = "SetUserActive_UpdateUser" /\ pc'[p] = "idle")
          => LET u == call[p].user IN
               /\ ret'[p].code = Ok
               /\ HasUser(db', u)
               /\ db'.users[u] = [username |-> pre[p].users[u].username,
                                  is_active |-> call[p].active,
                                  team_name |-> pre[p].users[u].team_name]
               /\ ret'[p].user = [UserID |-> u,
                                  Username |-> pre[p].users[u].username,
                                  TeamName |-> pre[p].users[u].team_name,
                                  IsActive |-> call[p].active]]_vars

\* SetUserActive has returned success, and an AddTeam of another team that is
\* still running upserted the same user between its read and its write
C14_Witness ==
  /\ Done(1, "SetUserActive")
  /\ ret[1].code = Ok
  /\ pc[2] = "AddTeam_UpsertUser"
  /\ call[2].team # pre[1].users[call[1].user].team_name
  /\ \E m \in loc[2].members : m.UserID = call[1].user
  /\ db.users[call[1].user].team_name = pre[1].users[call[1].user].team_name
  /\ db.users[call[1].user].is_active # pre[1].users[call[1].user].is_active

\* SetUserActive of a user that does not exist has returned
C14_WitnessNotFound ==
  /\ Done(1, "SetUserActive")
  /\ ~HasUser(pre[1], call[1].user)
  /\ pre[1].users # << >>

\* C15: a stored pull request stays stored: no step of any request removes a
\* row of pull_requests, so GetPullRequest keeps finding it
C15_PullRequestNeverDeleted ==
  [][\A id \in PRIDs :
       HasPR(db, id) => /\ HasPR(db', id)
                        /\ SelectPullRequest(db', id).err = ""]_vars

\* an AddTeam that failed and ran its compensating delete has returned, and a
\* pull request that was stored when it was called is gone
C15_Witness ==
  /\ Done(1, "AddTeam")
  /\ ret[1].undo = "deleted"
  /\ \E id \in DOMAIN pre[1].pull_requests : ~HasPR(db, id)

\* C16: while two Reassign requests on one pull request interleave their
\* storage calls, the stored pull request has at most two reviewers, none of
\* them twice, and never its author
C16_ReviewerCapConcurrent ==
  (\A p \in Procs : call[p].name = "Reassign")
  => \A id \in DOMAIN db.pull_requests :
       LET revs == ListReviewersByPR(db, id) IN
         /\ Len(revs) <= 2
         /\ NoDuplicates(revs)
         /\ db.pull_requests[id].author_id \notin Range(revs)

\* both Reassign requests are over and three reviewers are stored
C16_Witness ==
  /\ \A p \in Procs : Done(p, "Reassign")
  /\ \E id \in DOMAIN db.pull_requests : Cardinality(Reviewers(db, id)) = 3

\* C17: UpdatePullRequest is atomic for its readers: a GetPullRequest of another
\* request that lists the reviewers while UpdatePullRequest has updated the row
\* but not yet inserted its last reviewer reads the complete new reviewer set,
\* not the old one, an empty one or a part of the new one
C17_UpdateAtomic ==
  [][\A q \in Procs :
       (pc[q] \in {"Merge_ListReviewers", "Reassign_ListReviewers"} /\ pc'[q] # pc[q])
       => \A p \in Procs \ {q} :
            (/\ pc[p] \in {"UpdatePullRequest_Delete", "UpdatePullRequest_Insert"}
             /\ loc[p].pr.PullRequestID = call[q].id)
            => Range(ListReviewersByPR(db, call[q].id))
                 = Range(loc[p].pr.AssignedReviewers)]_vars

\* a Merge has returned a pull request without reviewers: it listed them
\* between the DELETE and the INSERTs of the other request
C17_Witness ==
  \E q \in Procs :
    /\ Done(q, "Merge")
    /\ ret[q].code = Ok
    /\ Reviewers(pre[q], call[q].id) # {}
    /\ ret[q].pr.AssignedReviewers = << >>

\* the reviewers a successful Reassign of process p had read: those it
\* returned, with the old reviewer back in the place of the replacement
ReadByReassign(p) ==
  (Range(ret[p].pr.AssignedReviewers) \ {ret[p].replaced_by}) \cup {call[p].old}

\* two Reassign requests on the same pull request with reviewers {B, C}, one
\* replacing B and one replacing C, have both read {B, C} and both returned success
BothReassigned ==
  /\ \A p \in Procs : Done(p, "Reassign") /\ ret[p].code = Ok
  /\ call[1].id = call[2].id
  /\ call[1].old # call[2].old
  /\ \A p \in Procs :
       /\ Reviewers(pre[p], call[p].id) = {call[1].old, call[2].old}
       /\ ReadByReassign(p) = {call[1].old, call[2].old}

\* C18: Reassign loses updates: when two Reassign requests that both read the
\* reviewers {B, C}, one replacing B and one replacing C, both return success,
\* the stored reviewer set still contains B or C
C18_LostUpdate ==
  BothReassigned => Reviewers(db, call[1].id) \cap {call[1].old, call[2].old} # {}

\* the interleaving exists: both requests returned success, each names its
\* replacement, and one of the replaced reviewers is still stored
C18_Witness ==
  /\ BothReassigned
  /\ \A p \in Procs : ret[p].replaced_by \notin {call[1].old, call[2].old}
  /\ \E old \in {call[1].old, call[2].old} : <<call[1].id, old>> \in db.reviewers

\* C19: a method one of whose storage calls failed with an internal error
\* returns an error without a code: not success, and none of TEAM_EXISTS,
\* PR_EXISTS, PR_MERGED, NOT_ASSIGNED, NO_CANDIDATE, NOT_FOUND
C19_NoErrorSwallowed ==
  \A p \in Procs :
    (pc[p] = "idle" /\ ret[p].code # "" /\ ret[p].fault) => ret[p].code = Untyped

\* Create has returned success although its GetPullRequest failed
C19_Witness ==
  /\ Done(1, "Create")
  /\ ret[1].fault
  /\ ret[1].code = Ok
  /\ HasPR(db, call[1].id)

\* a method has returned NOT_FOUND for something that exists, because the
\* read failed
C19_WitnessNotFound ==
  /\ Done(1, "Merge")
  /\ ret[1].fault
  /\ ret[1].code = ErrorCodeNotFound
  /\ HasPR(db, call[1].id)

\* C20: in every state, also while Merge and Reassign requests on the same pull
\* request interleave, a stored pull request has a merged_at exactly when its
\* status is MERGED
C20_MergedAtIffMerged ==
  \A id \in DOMAIN db.pull_requests :
    (db.pull_requests[id].merged_at # NULL)
      <=> (db.pull_requests[id].status = PRStatusMerged)

\* a Merge and a Reassign of the same pull request have both returned success
\* and the Reassign's stale UPDATE has put the merged pull request back to OPEN
C20_Witness ==
  \E p, q \in Procs :
    /\ Done(p, "Merge") /\ ret[p].code = Ok /\ ret[p].writes > 0
    /\ Done(q, "Reassign") /\ ret[q].code = Ok
    /\ call[p].id = call[q].id
    /\ db.pull_requests[call[p].id].status = PRStatusOpen
    /\ db.pull_requests[call[p].id].merged_at = NULL

\* a Merge has returned success and its pull request is stored as MERGED
C20_WitnessMerged ==
  \E p \in Procs :
    /\ Done(p, "Merge") /\ ret[p].code = Ok /\ ret[p].writes > 0
    /\ db.pull_requests[call[p].id].status = PRStatusMerged
    /\ db.pull_requests[call[p].id].merged_at # NULL

\* C21: with one request at a time, GetTeam(name) fails with NOT_FOUND when the
\* name is not registered; otherwise it succeeds and returns exactly the users
\* whose stored team is name, each with the stored name and active flag
C21_GetTeamLive ==
  \A p \in Procs :
    Done(p, "GetTeam")
    => IF ~HasTeam(db, call[p].team)
       THEN ret[p].code = ErrorCodeNotFound
       ELSE /\ ret[p].code = Ok
            /\ {m.UserID : m \in ret[p].members}
                 = {u \in DOMAIN db.users : db.users[u].team_name = call[p].team}
            /\ Cardinality(ret[p].members)
                 = Cardinality({m.UserID : m \in ret[p].members})
            /\ \A m \in ret[p].members :
                 /\ m.IsActive = db.users[m.UserID].is_active
                 /\ m.Username = db.users[m.UserID].username

\* a GetTeam right after an AddTeam of another team that took a member away: the
\* member is no longer listed, and a member that SetUserActive or AddTeam made
\* inactive is listed as inactive
C21_Witness ==
  /\ Done(1, "GetTeam") /\ ret[1].code = Ok
  /\ call[1].prev.name = "AddTeam" /\ call[1].prev.code = Ok
  /\ call[1].prev.team # call[1].team
  /\ \E u \in UsersOfTeam(call[1].prev.pre, call[1].team) :
       u \notin {m.UserID : m \in ret[1].members}
  /\ \E m \in ret[1].members : ~m.IsActive

\* a GetTeam of a name that is not registered, while another team has members
C21_WitnessNotFound ==
  /\ Done(1, "GetTeam") /\ ret[1].code = ErrorCodeNotFound
  /\ ~HasTeam(db, call[1].team)
  /\ db.users # << >>

\* a GetTeam right after a successful SetUserActive lists the user with the
\* flag just set
C21_WitnessSetUserActive ==
  /\ Done(1, "GetTeam") /\ ret[1].code = Ok
  /\ call[1].prev.name = "SetUserActive" /\ call[1].prev.code = Ok
  /\ \E m \in ret[1].members :
       /\ HasUser(call[1].prev.pre, m.UserID)
       /\ call[1].prev.pre.users[m.UserID].is_active # m.IsActive

\* C22: with one request at a time, a user whose stored flag is inactive when
\* the request is called (SetUserActive or an AddTeam upsert made it so, and
\* nothing made it active since) is not among the reviewers a successful Create
\* stores or returns, is not the replacement a successful Reassign returns,
\* and is not added to the stored reviewers by a successful Reassign
C22_InactiveNeverAssigned ==
  \A p \in Procs :
    /\ (Done(p, "Create") /\ ret[p].code = Ok)
       => \A u \in Reviewers(db, call[p].id) \cup Range(ret[p].pr.AssignedReviewers) :
            HasUser(pre[p], u) /\ pre[p].users[u].is_active
    /\ (Done(p, "Reassign") /\ ret[p].code = Ok)
       => /\ HasUser(pre[p], ret[p].replaced_by)
          /\ pre[p].users[ret[p].replaced_by].is_active
          /\ \A u \in Reviewers(db, call[p].id) \ Reviewers(pre[p], call[p].id) :
               pre[p].users[u].is_active

\* a Create that stored a single reviewer although the author had two
\* teammates: the other one was inactive
C22_Witness ==
  /\ Done(1, "Create") /\ ret[1].code = Ok
  /\ Cardinality(Reviewers(db, call[1].id)) = 1
  /\ \E u \in UsersOfTeam(pre[1], pre[1].users[call[1].author].team_name) :
       u # call[1].author /\ ~pre[1].users[u].is_active

\* a Reassign that succeeded while a member of the old reviewer's team, who was
\* neither the author nor a reviewer, was inactive
C22_WitnessReassign ==
  /\ Done(1, "Reassign") /\ ret[1].code = Ok
  /\ \E u \in UsersOfTeam(pre[1], pre[1].users[call[1].old].team_name) :
       /\ ~pre[1].users[u].is_active
       /\ u # pre[1].pull_requests[call[1].id].author_id
       /\ u \notin Reviewers(pre[1], call[1].id)

\* C23: with one request at a time, Merge(id) and Reassign(id, old) on an id
\* that is not stored fail with NOT_FOUND, execute no write and leave every
\* table as it was; Merge on a stored OPEN pull request succeeds, and the stored
\* status is MERGED afterwards
C23_NotFoundAndMerge ==
  \A p \in Procs :
    /\ (Done(p, "Merge") \/ Done(p, "Reassign")) /\ ~HasPR(pre[p], call[p].id)
       => /\ ret[p].code = ErrorCodeNotFound
          /\ ret[p].writes = 0
          /\ db = pre[p]
          /\ ~HasPR(db, call[p].id)
          /\ Reviewers(db, call[p].id) = {}
    /\ (/\ Done(p, "Merge")
        /\ HasPR(pre[p], call[p].id)
        /\ pre[p].pull_requests[call[p].id].status = PRStatusOpen)
       => /\ ret[p].code = Ok
          /\ HasPR(db, call[p].id)
          /\ db.pull_requests[call[p].id].status = PRStatusMerged
          /\ ret[p].pr.Status = PRStatusMerged

\* a Reassign of an id that is not stored, for a user that is
C23_Witness ==
  /\ Done(1, "Reassign")
  /\ ~HasPR(pre[1], call[1].id)
  /\ HasUser(pre[1], call[1].old)

\* a Merge of an id that is not stored
C23_WitnessMergeNotFound ==
  /\ Done(1, "Merge")
  /\ ~HasPR(pre[1], call[1].id)
  /\ pre[1].users # << >>

\* a Merge of a stored OPEN pull request with two reviewers
C23_WitnessMerged ==
  /\ Done(1, "Merge")
  /\ HasPR(pre[1], call[1].id)
  /\ pre[1].pull_requests[call[1].id].status = PRStatusOpen
  /\ Cardinality(Reviewers(pre[1], call[1].id)) = 2

\* C24: in every state the team_name of every stored user is a registered
\* team, also after an AddTeam moved stored users into its team and after an
\* AddTeam failed and ran its compensating delete
C24_UserTeamRegistered ==
  \A u \in DOMAIN db.users : db.users[u].team_name \in db.teams

\* an AddTeam has moved a stored user into its team, failed on the next member
\* and deleted its team: the moved user is gone with it
C24_Witness ==
  /\ Done(1, "AddTeam")
  /\ ret[1].undo = "deleted"
  /\ \E u \in DOMAIN pre[1].users : ~HasUser(db, u)
  /\ db.users # << >>

\* a successful AddTeam has moved a stored user into its team
C24_WitnessMoved ==
  /\ Done(1, "AddTeam") /\ ret[1].code = Ok
  /\ \E u \in DOMAIN pre[1].users :
       /\ db.users[u].team_name = call[1].team
       /\ pre[1].users[u].team_name # call[1].team

\* C25: the response to a request whose method returned an error with the code
\* NOT_FOUND has status 404, with TEAM_EXISTS, PR_EXISTS, PR_MERGED, NOT_ASSIGNED
\* or NO_CANDIDATE status 409, and only an error without a code has status 500
C25_StatusByCode ==
  \A p \in Procs :
    (pc[p] = "idle" /\ ret[p].code # "")
    => /\ ret[p].code = ErrorCodeNotFound => ret[p].status = StatusNotFound
       /\ ret[p].code \in {ErrorCodeTeamExists, ErrorCodePRExists, ErrorCodePRMerged,
                           ErrorCodeNotAssigned, ErrorCodeNoCandidate}
            => ret[p].status = StatusConflict
       /\ ret[p].status = StatusInternalServerError => ret[p].code = Untyped

\* what the handlers do: every error, with a code or without, is answered with
\* status 500, and the body carries the code
C25_EveryErrorIs500 ==
  \A p \in Procs :
    (pc[p] = "idle" /\ ret[p].code # "")
    => IF ret[p].code = Ok
       THEN ret[p].status \in {StatusOK, StatusCreated}
       ELSE /\ ret[p].status = StatusInternalServerError
            /\ ret[p].code # Untyped => ret[p].body = ret[p].code

\* a Merge of an id that is not stored was answered with status 500 and the
\* code NOT_FOUND in the body
C25_Witness ==
  /\ Done(1, "Merge")
  /\ ret[1].code = ErrorCodeNotFound
  /\ ret[1].body = ErrorCodeNotFound
  /\ ret[1].status = StatusInternalServerError

\* an AddTeam of a registered name was answered with status 500
C25_WitnessConflict ==
  /\ Done(1, "AddTeam")
  /\ ret[1].code = ErrorCodeTeamExists
  /\ ret[1].status = StatusInternalServerError

\* the reviewer sets Create can assign from the candidates c, in the order of
\* the rows read, over the draws of the generator
CreateOutcomes(c) == {Range(Assigned(FisherYates(c, Len(c), r))) : r \in Draws(Len(c))}

\* the replacements Reassign can choose from the candidates c, in the order of
\* the rows read, over the draws of the generator
ReassignOutcomes(c) == {Pick(c, idx) : idx \in Intn(Len(c))}

\* C26: when Create is about to select, whatever the order of the rows read,
\* the reviewer sets the generator can produce are exactly the 2-element
\* subsets of the pool when the pool has two members or more, and exactly the
\* pool when it has one; when Reassign is about to select from a pool that is
\* not empty, the replacements the generator can produce are exactly the
\* members of the pool
C26_SelectionReachesAll ==
  \A p \in Procs :
    /\ (pc[p] = "Create_GetTeamCount" /\ CountTeams(db, loc[p].user.TeamName) # 0)
       => LET cands == CreateCandidates(loc[p].rows, loc[p].user.UserID)
              P == {m.UserID : m \in cands}
          IN \A c \in Orderings(cands) :
               /\ Cardinality(P) >= 2
                  => CreateOutcomes(c) = {S \in SUBSET P : Cardinality(S) = 2}
               /\ Cardinality(P) = 1 => CreateOutcomes(c) = {P}
    /\ (pc[p] = "Reassign_GetTeamCount" /\ CountTeams(db, loc[p].user.TeamName) # 0)
       => LET cands == ReassignCandidates(loc[p].rows, loc[p].pr, call[p].old)
          IN \A c \in Orderings(cands) :
               ReassignOutcomes(c) = {m.UserID : m \in cands}

\* Create is about to select from a pool of three
C26_Witness ==
  /\ pc[1] = "Create_GetTeamCount"
  /\ CountTeams(db, loc[1].user.TeamName) # 0
  /\ Cardinality(CreateCandidates(loc[1].rows, loc[1].user.UserID)) = 3

\* Reassign is about to select from a pool of two
C26_WitnessReassign ==
  /\ pc[1] = "Reassign_GetTeamCount"
  /\ CountTeams(db, loc[1].user.TeamName) # 0
  /\ Cardinality(ReassignCandidates(loc[1].rows, loc[1].pr, call[1].old)) = 2

\* a Create with a pool of one has assigned its member
C26_WitnessSingle ==
  /\ Done(1, "Create") /\ ret[1].code = Ok
  /\ Cardinality(CreatePool(pre[1], call[1].author)) = 1
  /\ Reviewers(db, call[1].id) = CreatePool(pre[1], call[1].author)

\* C27: with one request at a time, GetReviewPRs(userID) succeeds, for a user
\* that is not stored or reviews nothing too, and returns exactly the stored
\* pull requests whose stored reviewers include the user, OPEN or MERGED, each
\* with its stored name, author and status
C27_GetReviewPRs ==
  \A p \in Procs :
    Done(p, "GetReviewPRs")
    => /\ ret[p].code = Ok
       /\ {s.PullRequestID : s \in ret[p].prs}
            = {id \in DOMAIN db.pull_requests : call[p].user \in Reviewers(db, id)}
       /\ Cardinality(ret[p].prs) = Cardinality({s.PullRequestID : s \in ret[p].prs})
       /\ \A s \in ret[p].prs :
            /\ s.Status = db.pull_requests[s.PullRequestID].status
            /\ s.AuthorID = db.pull_requests[s.PullRequestID].author_id
            /\ s.PullRequestName = db.pull_requests[s.PullRequestID].pull_request_name

\* user 2, the reviewer of pull request 1 when team T2 was registered, has been
\* replaced by a Reassign and gets an empty list
C27_Witness ==
  /\ Done(1, "GetReviewPRs")
  /\ call[1].user = 2
  /\ "T2" \in db.teams
  /\ HasPR(db, 1)
  /\ ret[1].prs = {}

\* a reviewer of a MERGED pull request gets it
C27_WitnessMerged ==
  /\ Done(1, "GetReviewPRs")
  /\ \E s \in ret[1].prs : s.Status = PRStatusMerged

\* a user that is not stored gets an empty list, not NOT_FOUND
C27_WitnessUnknown ==
  /\ Done(1, "GetReviewPRs")
  /\ ~HasUser(db, call[1].user)
  /\ db.reviewers # {}
  /\ ret[1].code = Ok /\ ret[1].prs = {}

\* the replacement a Reassign chose gets the pull request
C27_WitnessReassigned ==
  /\ Done(1, "GetReviewPRs")
  /\ "T2" \in db.teams
  /\ call[1].user \in {3, 4}
  /\ ret[1].prs # {}

\* C28: every method that was called returns, with success or with an error,
\* while another request is served at the same time and whether its storage
\* calls succeed or fail; and a method that has not returned can always take
\* its next step, whatever the other request is doing
C28_Terminates ==
  /\ \A p \in Procs : (pc[p] # "idle") ~> (pc[p] = "idle" /\ ret[p].code # "")
  /\ [](\A p \in Procs : pc[p] # "idle" => ENABLED Step(p))

\* both processes are in the middle of a method, one of them in the loop of
\* UpdatePullRequest
C28_Witness ==
  /\ pc[1] = "UpdatePullRequest_Insert"
  /\ pc[2] \notin {"idle"}

\* C29: after a Create that returned the error of a failed insert (of the pull
\* request or of a reviewer), no pull request with its id is stored and no
\* reviewer of that id is stored
C29_FailedCreateLeavesNoTrace ==
  \A p \in Procs :
    (Done(p, "Create") /\ ret[p].code = Untyped)
    => /\ ~HasPR(db, call[p].id)
       /\ Reviewers(db, call[p].id) = {}

\* what holds: a Create whose insert of the pull request failed leaves the
\* tables as they were
C29_FailedInsertLeavesNoTrace ==
  \A p \in Procs :
    (Done(p, "Create") /\ ret[p].code = Untyped /\ ret[p].writes = 0)
    => db = pre[p]

\* a Create has inserted the pull request, failed to insert its reviewer and
\* returned the error: the pull request is stored, without reviewer
C29_Witness ==
  /\ Done(1, "Create") /\ ret[1].code = Untyped
  /\ ret[1].writes = 1
  /\ ~HasPR(pre[1], call[1].id)
  /\ HasPR(db, call[1].id)
  /\ Reviewers(db, call[1].id) = {}

\* process p is back from a successful AddTeam of a team that was not registered
AddedNewTeam(p) ==
  /\ Done(p, "AddTeam") /\ ret[p].code = Ok
  /\ ~HasTeam(pre[p], call[p].team)

\* C30 as stated: a successful AddTeam of a new team T leaves the members that
\* GetTeam returns for every other registered team as they were, also when the
\* submitted members include users of that team
C30_OtherTeamsUnchanged ==
  \A p \in Procs :
    AddedNewTeam(p)
    => \A t \in pre[p].teams \ {call[p].team} :
         SelectTeamUsers(db, t) = SelectTeamUsers(pre[p], t)

\* C30 amended: a successful AddTeam of a new team T takes from every other
\* registered team exactly the members whose user ID it submitted, which are
\* members of T afterwards, and leaves the other members of that team as they
\* were
C30_OtherTeamsLoseSubmitted ==
  \A p \in Procs :
    AddedNewTeam(p)
    => LET ids == {m.UserID : m \in ret[p].members} IN
         /\ \A t \in pre[p].teams \ {call[p].team} :
              SelectTeamUsers(db, t)
                = {m \in SelectTeamUsers(pre[p], t) : m.UserID \notin ids}
         /\ {m.UserID : m \in SelectTeamUsers(db, call[p].team)} = ids

\* a successful AddTeam of a new team has submitted one member of another team
\* and left another member of that team alone
C30_Witness ==
  /\ AddedNewTeam(1)
  /\ \E t \in pre[1].teams \ {call[1].team} :
       /\ \E m \in ret[1].members : m.UserID \in UsersOfTeam(pre[1], t)
       /\ UsersOfTeam(db, t) # {}

\* process p is back from an AddTeam that created the team row, failed to
\* upsert a member and ran the compensating delete
AddTeamUndone(p) == Done(p, "AddTeam") /\ ret[p].undo = "deleted"

\* C31: after an AddTeam that failed on a member upsert and ran its
\* compensating delete, every user stored before the call is stored with the
\* same team, name and flag, and every pull request stored before the call is
\* stored with the same author and the same reviewers
C31_FailedAddTeamRestores ==
  \A p \in Procs :
    AddTeamUndone(p)
    => /\ \A u \in DOMAIN pre[p].users :
            HasUser(db, u) /\ db.users[u] = pre[p].users[u]
       /\ \A id \in DOMAIN pre[p].pull_requests :
            /\ HasPR(db, id)
            /\ db.pull_requests[id].author_id = pre[p].pull_requests[id].author_id
            /\ Reviewers(db, id) = Reviewers(pre[p], id)

\* what holds: the team is not registered afterwards, the users the request
\* did not name are stored as before, and the users it named are either
\* stored as before or gone
C31_FailedAddTeamKeepsUnnamed ==
  \A p \in Procs :
    AddTeamUndone(p)
    => LET ids == {m.UserID : m \in ret[p].members} IN
         /\ ~HasTeam(db, call[p].team)
         /\ db.teams = pre[p].teams
         /\ \A u \in DOMAIN pre[p].users :
              IF u \in ids
              THEN HasUser(db, u) => db.users[u] = pre[p].users[u]
              ELSE HasUser(db, u) /\ db.users[u] = pre[p].users[u]

\* the failed AddTeam had upserted a user of another team before the upsert
\* that failed: the user is gone, and a pull request of another author has
\* lost it as its reviewer
C31_Witness ==
  /\ AddTeamUndone(1)
  /\ \E u \in DOMAIN pre[1].users :
       /\ pre[1].users[u].team_name # call[1].team
       /\ ~HasUser(db, u)
       /\ \E id \in DOMAIN db.pull_requests :
            /\ u \in Reviewers(pre[1], id)
            /\ u \notin Reviewers(db, id)

\* the first upsert failed: nothing was moved and the tables are as before
C31_WitnessRestored ==
  /\ AddTeamUndone(1)
  /\ Cardinality(ret[1].members) = 1
  /\ pre[1].users # << >>
  /\ db = pre[1]

\* process p is back from a Merge that returned no error for a pull request
\* that was stored OPEN when the call began
MergedOpen(p) ==
  /\ Done(p, "Merge")
  /\ ret[p].code = Ok
  /\ HasPR(pre[p], call[p].id)
  /\ pre[p].pull_requests[call[p].id].status = PRStatusOpen

\* C32: after a successful Merge of an OPEN pull request, run alone, the
\* stored reviewers, author, name and created_at of the pull request are the
\* ones stored before the call, its status is MERGED and merged_at is set, and
\* every other pull request with its reviewers, every user and every team is
\* stored as before
C32_MergeChangesOnlyStatus ==
  \A p \in Procs :
    MergedOpen(p)
    => LET id == call[p].id
           was == pre[p].pull_requests[id]
           now == db.pull_requests[id]
       IN /\ DOMAIN db.pull_requests = DOMAIN pre[p].pull_requests
          /\ Reviewers(db, id) = Reviewers(pre[p], id)
          /\ now.author_id = was.author_id
          /\ now.pull_request_name = was.pull_request_name
          /\ now.created_at = was.created_at
          /\ now.status = PRStatusMerged
          /\ now.merged_at # NULL
          /\ \A other \in DOMAIN pre[p].pull_requests \ {id} :
               /\ db.pull_requests[other] = pre[p].pull_requests[other]
               /\ Reviewers(db, other) = Reviewers(pre[p], other)
          /\ db.users = pre[p].users
          /\ db.teams = pre[p].teams

\* a Merge of an OPEN pull request with reviewers was done while another
\* pull request with reviewers of its own is stored
C32_Witness ==
  /\ MergedOpen(1)
  /\ Reviewers(pre[1], call[1].id) # {}
  /\ \E other \in DOMAIN pre[1].pull_requests \ {call[1].id} :
       Reviewers(pre[1], other) # {}

====
